---- MODULE Spec2Model ----
(***************************************************************************)
(* The incremental session-ingestion pipeline of the LLM usage tracker:    *)
(* SessionParser (parser.ts) over DatabaseManager (database.ts), driven by *)
(* the IPC handlers of main.ts, against session directories that other     *)
(* processes (the assistant CLIs) write to.                                *)
(*                                                                         *)
(* One state of the model is one point at which the JavaScript event loop  *)
(* can run another continuation: every action of a call is the synchronous *)
(* span between two awaits.  An await of a promise that is settled already *)
(* (ensureDb once the database is ready, findSessionFiles, the Codex and   *)
(* Gemini parsers, which read with readFileSync) resumes from the          *)
(* microtask queue, first in first out, before the event loop takes the    *)
(* next IPC message or I/O event; the await of the Claude parser, which    *)
(* reads a stream, and the first await of the database resume on an I/O    *)
(* event.  Changes to the directories are seen between two turns of the    *)
(* event loop.                                                             *)
(***************************************************************************)
EXTENDS Integers, Sequences, FiniteSets, TLC

(***************************************************************************)
(* Providers, session directories and the files under them                 *)
(***************************************************************************)
Providers == {"claude", "codex", "gemini"}

\* the order of Promise.all in syncAll and of the loop in getAllUsage
ProviderOrder == <<"claude", "codex", "gemini">>

\* The candidate log files, each in a subdirectory of its own, in the order
\* in which the walk of findSessionFiles meets them.
PathOrder == <<"c1", "c2", "x1", "g1">>

AllPaths == {PathOrder[i] : i \in DOMAIN PathOrder}

\* one log file per session directory
Paths == {"c1", "x1", "g1"}

\* the session files a store can hold rows of: twelve of Claude, twelve of
\* Codex, one of Gemini
StoredOrder ==
    <<"c1", "c2", "c3", "c4", "c5", "c6", "c7", "c8", "c9", "c10", "c11", "c12",
      "x1", "x2", "x3", "x4", "x5", "x6", "x7", "x8", "x9", "x10", "x11", "x12",
      "g1">>

PathIndex(f) == CHOOSE i \in DOMAIN StoredOrder : StoredOrder[i] = f

\* SESSION_DIRS: the session directory a path lies under
PathProvider(f) ==
    CASE f \in {"c1", "c2"} -> "claude"
      [] f \in {"x1", "x2"} -> "codex"
      [] OTHER -> "gemini"

PathsOf(p) == {f \in AllPaths : PathProvider(f) = p}

\* the extension of the file name: ".jsonl" or ".json"
PathExt(f) == IF f \in {"x2", "g1"} THEN "json" ELSE "jsonl"

\* path.basename(path.dirname(f)) for Claude, path.basename(f, ext) otherwise
SessionIdOf(f) == f

\* extractClaudeProjectName: the label decoded from the first path segment
\* below ~/.claude/projects
extractClaudeProjectName(f) == IF f = "c2" THEN "work/api" ELSE "trees/project"

NULL == "null"

\* an optional number that the parser's record does not carry (undefined)
Absent == -1

(***************************************************************************)
(* File contents: a file is a sequence of lines, a line is what JSON.parse *)
(* makes of it.                                                            *)
(***************************************************************************)
Ev == [shape |-> "obj", type |-> "", ptype |-> "", role |-> "", tool |-> "none",
       inp |-> 0, out |-> 0, cread |-> 0, ccreate |-> 0, cost |-> 0,
       ts |-> 0, model |-> "", cwd |-> "", info |-> "none"]

InvalidLine == [Ev EXCEPT !.shape = "invalid"]

ClaudeContents == <<
    \* no line parses: zero messages
    << InvalidLine >>,
    << [Ev EXCEPT !.type = "user", !.role = "user", !.ts = 1],
       [Ev EXCEPT !.type = "assistant", !.role = "assistant", !.inp = 10, !.out = 5,
                  !.ts = 2, !.model = "claude-sonnet-4-20250514"] >>,
    << [Ev EXCEPT !.type = "user", !.role = "user", !.ts = 1],
       [Ev EXCEPT !.type = "assistant", !.role = "assistant", !.tool = "tool_use",
                  !.inp = 20, !.out = 8, !.cread = 4, !.ts = 3,
                  !.model = "claude-sonnet-4-20250514"],
       InvalidLine,
       [Ev EXCEPT !.type = "tool_use", !.inp = 5, !.out = 2, !.cost = 7, !.ts = 3] >> >>

CodexContents == <<
    \* an empty file
    << >>,
    << [Ev EXCEPT !.type = "session_meta", !.cwd = "/home/u/trees/project", !.ts = 1],
       [Ev EXCEPT !.type = "turn_context", !.model = "gpt-4o", !.ts = 1],
       [Ev EXCEPT !.type = "event_msg", !.ptype = "user_message", !.ts = 2],
       [Ev EXCEPT !.type = "event_msg", !.ptype = "token_count",
                  !.info = "usage", !.inp = 100, !.out = 50, !.ts = 2] >>,
    << [Ev EXCEPT !.type = "response_item", !.ptype = "message", !.role = "user", !.ts = 1],
       [Ev EXCEPT !.type = "event_msg", !.ptype = "token_count",
                  !.info = "usage", !.inp = 100, !.out = 50, !.ts = 2],
       [Ev EXCEPT !.type = "event_msg", !.ptype = "agent_message", !.ts = 3],
       [Ev EXCEPT !.type = "event_msg", !.ptype = "token_count",
                  !.info = "usage", !.inp = 250, !.out = 120, !.ts = 4] >> >>

GeminiContents == <<
    \* only a blank line
    << [Ev EXCEPT !.shape = "blank"] >>,
    << [Ev EXCEPT !.role = "user"],
       [Ev EXCEPT !.role = "model", !.inp = 7, !.out = 3] >>,
    << [Ev EXCEPT !.role = "user"],
       [Ev EXCEPT !.shape = "null"],
       [Ev EXCEPT !.role = "model", !.inp = 9, !.out = 4, !.model = "gemini-1.5-pro"] >> >>

ContentTable(p) ==
    CASE p = "claude" -> ClaudeContents
      [] p = "codex" -> CodexContents
      [] OTHER -> GeminiContents

ContentIds == DOMAIN ClaudeContents

(***************************************************************************)
(* Pricing (per 1M tokens, here in 1/1000 USD) and cost (in 1e-9 USD)      *)
(***************************************************************************)
PRICING(key) ==
    CASE key \in {"claude-sonnet-4-20250514", "claude-3-5-sonnet-20241022",
                  "claude-3-5-sonnet-20240620"} -> [input |-> 3000, output |-> 15000]
      [] key \in {"claude-3-opus-20240229", "claude-opus-4-20250514"}
                                     -> [input |-> 15000, output |-> 75000]
      [] key = "claude-3-haiku-20240307" -> [input |-> 250, output |-> 1250]
      [] key = "gpt-4o" -> [input |-> 2500, output |-> 10000]
      [] key = "gpt-4o-mini" -> [input |-> 150, output |-> 600]
      [] key = "gpt-4-turbo" -> [input |-> 10000, output |-> 30000]
      [] key = "o1" -> [input |-> 15000, output |-> 60000]
      [] key \in {"o1-mini", "o3-mini"} -> [input |-> 1100, output |-> 4400]
      [] key = "gemini-2.0-flash" -> [input |-> 100, output |-> 400]
      [] key = "gemini-1.5-pro" -> [input |-> 1250, output |-> 5000]
      [] key = "gemini-1.5-flash" -> [input |-> 75, output |-> 300]
      [] OTHER -> [input |-> 3000, output |-> 15000]

\* Object.keys(PRICING): the keys in the order of the table
PricingKeys ==
    <<"claude-sonnet-4-20250514", "claude-3-5-sonnet-20241022",
      "claude-3-5-sonnet-20240620", "claude-3-opus-20240229",
      "claude-3-haiku-20240307", "claude-opus-4-20250514",
      "gpt-4o", "gpt-4o-mini", "gpt-4-turbo", "o1", "o1-mini", "o3-mini",
      "gemini-2.0-flash", "gemini-1.5-pro", "gemini-1.5-flash", "default">>

\* a model name as the sequence of its parts between hyphens; a name that
\* is not listed is one part
NameParts(name) ==
    CASE name = "claude-sonnet-4-20250514" -> <<"claude", "sonnet", "4", "20250514">>
      [] name = "claude-3-5-sonnet-20241022" -> <<"claude", "3", "5", "sonnet", "20241022">>
      [] name = "claude-3-5-sonnet-20240620" -> <<"claude", "3", "5", "sonnet", "20240620">>
      [] name = "claude-3-opus-20240229" -> <<"claude", "3", "opus", "20240229">>
      [] name = "claude-3-haiku-20240307" -> <<"claude", "3", "haiku", "20240307">>
      [] name = "claude-opus-4-20250514" -> <<"claude", "opus", "4", "20250514">>
      [] name = "gpt-4o" -> <<"gpt", "4o">>
      [] name = "gpt-4o-mini" -> <<"gpt", "4o", "mini">>
      [] name = "gpt-4-turbo" -> <<"gpt", "4", "turbo">>
      [] name = "o1" -> <<"o1">>
      [] name = "o1-mini" -> <<"o1", "mini">>
      [] name = "o3-mini" -> <<"o3", "mini">>
      [] name = "gemini-2.0-flash" -> <<"gemini", "2.0", "flash">>
      [] name = "gemini-1.5-pro" -> <<"gemini", "1.5", "pro">>
      [] name = "gemini-1.5-flash" -> <<"gemini", "1.5", "flash">>
      [] name = "gpt-4o-mini-2024-07-18" -> <<"gpt", "4o", "mini", "2024", "07", "18">>
      [] name = "gpt-4o-2024-08-06" -> <<"gpt", "4o", "2024", "08", "06">>
      [] name = "o1-mini-2024-09-12" -> <<"o1", "mini", "2024", "09", "12">>
      [] name = "o1-preview" -> <<"o1", "preview">>
      [] name = "openai/gpt-4-turbo-preview" -> <<"openai/", "gpt", "4", "turbo", "preview">>
      [] name = "claude-opus-4-1-20250805" -> <<"claude", "opus", "4", "1", "20250805">>
      [] name = "claude-sonnet-4-5" -> <<"claude", "sonnet", "4", "5">>
      [] name = "claude-haiku-4-5" -> <<"claude", "haiku", "4", "5">>
      [] name = "gemini-2.5-pro" -> <<"gemini", "2.5", "pro">>
      [] OTHER -> <<name>>

\* String.prototype.includes, on the parts of the names (startsWith is the
\* case i = 1)
includes(model, key) ==
    LET m == NameParts(model)
        k == NameParts(key)
    IN  \E i \in 1..Len(m) : i + Len(k) - 1 <= Len(m) /\ SubSeq(m, i, i + Len(k) - 1) = k

getModelPricing(model) ==
    IF model = NULL \/ model = "" THEN PRICING("default")
    ELSE IF \E i \in DOMAIN PricingKeys : PricingKeys[i] = model THEN PRICING(model)
    ELSE IF \E i \in DOMAIN PricingKeys : includes(model, PricingKeys[i])
      THEN PRICING(PricingKeys[CHOOSE i \in DOMAIN PricingKeys :
                                  /\ includes(model, PricingKeys[i])
                                  /\ \A j \in 1..(i - 1) : ~includes(model, PricingKeys[j])])
    ELSE IF includes(model, "opus") THEN PRICING("claude-3-opus-20240229")
    ELSE IF includes(model, "sonnet") THEN PRICING("claude-3-5-sonnet-20241022")
    ELSE IF includes(model, "haiku") THEN PRICING("claude-3-haiku-20240307")
    ELSE IF includes(model, "gpt-4o-mini") THEN PRICING("gpt-4o-mini")
    ELSE IF includes(model, "gpt-4o") THEN PRICING("gpt-4o")
    ELSE IF includes(model, "gemini") THEN PRICING("gemini-2.0-flash")
    ELSE PRICING("default")

calculateCost(inputTokens, outputTokens, model) ==
    inputTokens * getModelPricing(model).input + outputTokens * getModelPricing(model).output

Max(a, b) == IF a >= b THEN a ELSE b

(***************************************************************************)
(* The three format parsers                                                *)
(***************************************************************************)
\* the last two segments of the working directory
extractProjectFromPath(cwd) == IF cwd = "/home/u/trees/project" THEN "trees/project" ELSE cwd

ClaudeInit(f) ==
    [path |-> f, provider |-> "claude", sessionId |-> SessionIdOf(f),
     project |-> extractClaudeProjectName(f),
     messages |-> 0, userMessages |-> 0, assistantMessages |-> 0, toolUses |-> 0,
     inputTokens |-> 0, outputTokens |-> 0, cacheReadTokens |-> 0, cacheCreationTokens |-> 0,
     costUsd |-> 0, model |-> NULL, firstMessage |-> 0, lastMessage |-> 0, duration |-> 0]

ClaudeLine_last(s, e) ==
    IF e.shape \in {"blank", "invalid"} THEN s
    ELSE LET s1 == [s EXCEPT !.messages = @ + 1] IN
    IF e.shape = "null" THEN s1
    ELSE LET
        s2 == IF e.type = "user" \/ e.role = "user"
                THEN [s1 EXCEPT !.userMessages = @ + 1]
              ELSE IF e.type = "assistant" \/ e.role = "assistant"
                THEN [s1 EXCEPT !.assistantMessages = @ + 1]
              ELSE s1
    IN
    \* a null entry of message.content throws in the tool-use test
    IF e.type # "tool_use" /\ e.tool = "nullentry" THEN s2
    ELSE LET
        s3 == IF e.type = "tool_use" \/ e.tool = "tool_use"
                THEN [s2 EXCEPT !.toolUses = @ + 1] ELSE s2
        s4 == [s3 EXCEPT !.inputTokens = e.inp, !.outputTokens = e.out,
                         !.cacheReadTokens = @ + e.cread,
                         !.cacheCreationTokens = @ + e.ccreate,
                         !.costUsd = @ + e.cost]
        s5 == IF e.ts # 0
                THEN [s4 EXCEPT !.firstMessage = IF @ = 0 THEN e.ts ELSE @,
                                !.lastMessage = e.ts]
              ELSE s4
    IN  IF e.model # "" THEN [s5 EXCEPT !.model = e.model] ELSE s5

\* one line of a Claude file: the body of the for-await loop
ClaudeLine(s, e) ==
    IF e.shape \in {"blank", "invalid"} THEN s
    ELSE LET s1 == [s EXCEPT !.messages = @ + 1] IN
    IF e.shape = "null" THEN s1
    ELSE LET
        s2 == IF e.type = "user" \/ e.role = "user"
                THEN [s1 EXCEPT !.userMessages = @ + 1]
              ELSE IF e.type = "assistant" \/ e.role = "assistant"
                THEN [s1 EXCEPT !.assistantMessages = @ + 1]
              ELSE s1
    IN
    \* a null entry of message.content throws in the tool-use test
    IF e.type # "tool_use" /\ e.tool = "nullentry" THEN s2
    ELSE LET
        s3 == IF e.type = "tool_use" \/ e.tool = "tool_use"
                THEN [s2 EXCEPT !.toolUses = @ + 1] ELSE s2
        s4 == [s3 EXCEPT !.inputTokens = @ + e.inp, !.outputTokens = @ + e.out,
                         !.cacheReadTokens = @ + e.cread,
                         !.cacheCreationTokens = @ + e.ccreate,
                         !.costUsd = @ + e.cost]
        s5 == IF e.ts # 0
                THEN [s4 EXCEPT !.firstMessage = IF @ = 0 THEN e.ts ELSE @,
                                !.lastMessage = e.ts]
              ELSE s4
    IN  IF e.model # "" THEN [s5 EXCEPT !.model = e.model] ELSE s5

RECURSIVE ClaudeFold(_, _)
ClaudeFold(s, lines) ==
    IF lines = << >> THEN s ELSE ClaudeFold(ClaudeLine(s, Head(lines)), Tail(lines))

parseClaudeSession(f, lines) ==
    LET s == ClaudeFold(ClaudeInit(f), lines)
        c == IF s.costUsd = 0 /\ (s.inputTokens > 0 \/ s.outputTokens > 0)
               THEN [s EXCEPT !.costUsd = calculateCost(s.inputTokens, s.outputTokens, s.model)]
             ELSE s
    IN  IF c.firstMessage # 0 /\ c.lastMessage # 0
          THEN [c EXCEPT !.duration = Max(0, c.lastMessage - c.firstMessage)]
        ELSE c

CodexInit(f) ==
    [path |-> f, provider |-> "codex", sessionId |-> SessionIdOf(f), project |-> NULL,
     messages |-> 0, userMessages |-> 0, assistantMessages |-> 0, toolUses |-> 0,
     inputTokens |-> 0, outputTokens |-> 0, cacheReadTokens |-> Absent,
     cacheCreationTokens |-> Absent,
     costUsd |-> 0, model |-> NULL, firstMessage |-> 0, lastMessage |-> 0, duration |-> 0]

CodexLine_sum(s, e) ==
    IF e.shape \in {"blank", "invalid"} THEN s
    ELSE LET s1 == [s EXCEPT !.messages = @ + 1] IN
    IF e.shape = "null" THEN s1
    ELSE LET
        s2 == IF e.type = "session_meta" /\ e.cwd # ""
                THEN [s1 EXCEPT !.project = extractProjectFromPath(e.cwd)] ELSE s1
        s3 == IF e.ptype = "message" /\ e.role = "user"
                THEN [s2 EXCEPT !.userMessages = @ + 1]
              ELSE IF e.ptype = "message" /\ e.role = "assistant"
                THEN [s2 EXCEPT !.assistantMessages = @ + 1]
              ELSE s2
        s4 == IF e.type = "event_msg" /\ e.ptype = "user_message"
                THEN [s3 EXCEPT !.userMessages = @ + 1]
              ELSE IF e.type = "event_msg" /\ e.ptype = "agent_message"
                THEN [s3 EXCEPT !.assistantMessages = @ + 1]
              ELSE s3
        s5 == IF e.type = "event_msg" /\ e.ptype = "token_count" /\ e.info = "usage"
                THEN [s4 EXCEPT !.inputTokens = @ + e.inp, !.outputTokens = @ + e.out] ELSE s4
        s6 == IF e.type = "turn_context" /\ e.model # ""
                THEN [s5 EXCEPT !.model = e.model] ELSE s5
    IN  IF e.ts # 0
          THEN [s6 EXCEPT !.firstMessage = IF @ = 0 THEN e.ts ELSE @, !.lastMessage = e.ts]
        ELSE s6

\* one line of a Codex .jsonl file; inputTokens/outputTokens of the
\* accumulator hold lastTotalInput/lastTotalOutput
CodexLine(s, e) ==
    IF e.shape \in {"blank", "invalid"} THEN s
    ELSE LET s1 == [s EXCEPT !.messages = @ + 1] IN
    IF e.shape = "null" THEN s1
    ELSE LET
        s2 == IF e.type = "session_meta" /\ e.cwd # ""
                THEN [s1 EXCEPT !.project = extractProjectFromPath(e.cwd)] ELSE s1
        s3 == IF e.ptype = "message" /\ e.role = "user"
                THEN [s2 EXCEPT !.userMessages = @ + 1]
              ELSE IF e.ptype = "message" /\ e.role = "assistant"
                THEN [s2 EXCEPT !.assistantMessages = @ + 1]
              ELSE s2
        s4 == IF e.type = "event_msg" /\ e.ptype = "user_message"
                THEN [s3 EXCEPT !.userMessages = @ + 1]
              ELSE IF e.type = "event_msg" /\ e.ptype = "agent_message"
                THEN [s3 EXCEPT !.assistantMessages = @ + 1]
              ELSE s3
        s5 == IF e.type = "event_msg" /\ e.ptype = "token_count" /\ e.info = "usage"
                THEN [s4 EXCEPT !.inputTokens = e.inp, !.outputTokens = e.out] ELSE s4
        s6 == IF e.type = "turn_context" /\ e.model # ""
                THEN [s5 EXCEPT !.model = e.model] ELSE s5
    IN  IF e.ts # 0
          THEN [s6 EXCEPT !.firstMessage = IF @ = 0 THEN e.ts ELSE @, !.lastMessage = e.ts]
        ELSE s6

RECURSIVE CodexFold(_, _)
CodexFold(s, lines) ==
    IF lines = << >> THEN s ELSE CodexFold(CodexLine(s, Head(lines)), Tail(lines))

\* one element of a whole-file JSON array
CodexArrayMsg(s, e) ==
    IF e.role = "user" THEN [s EXCEPT !.userMessages = @ + 1]
    ELSE IF e.role = "assistant" THEN [s EXCEPT !.assistantMessages = @ + 1]
    ELSE s

RECURSIVE CodexArrayFold(_, _)
CodexArrayFold(s, msgs) ==
    IF msgs = << >> THEN s
    \* msg.role of a null element throws: the loop ends, the outer catch
    \* logs, and the record is returned as it stands
    ELSE IF Head(msgs).shape = "null" THEN s
    ELSE CodexArrayFold(CodexArrayMsg(s, Head(msgs)), Tail(msgs))

parseCodexSession(f, lines) ==
    LET s == IF PathExt(f) = "jsonl"
               THEN CodexFold(CodexInit(f), lines)
             ELSE IF \E i \in DOMAIN lines : lines[i].shape \in {"invalid", "blank"}
               \* JSON.parse of the whole file throws: the zero-valued record
               THEN CodexInit(f)
             ELSE CodexArrayFold([CodexInit(f) EXCEPT !.messages = Len(lines)], lines)
    IN  IF s.inputTokens > 0 \/ s.outputTokens > 0
          THEN [s EXCEPT !.costUsd = calculateCost(s.inputTokens, s.outputTokens, s.model)]
        ELSE s

GeminiInit(f) ==
    [path |-> f, provider |-> "gemini", sessionId |-> SessionIdOf(f), project |-> NULL,
     messages |-> 0, userMessages |-> 0, assistantMessages |-> 0, toolUses |-> Absent,
     inputTokens |-> 0, outputTokens |-> 0, cacheReadTokens |-> Absent,
     cacheCreationTokens |-> Absent,
     costUsd |-> 0, model |-> "gemini-2.0-flash", firstMessage |-> 0, lastMessage |-> 0,
     duration |-> 0]

GeminiLine_rolesOnly(s, e) ==
    IF e.shape \in {"blank", "invalid"} THEN s
    ELSE IF e.shape = "null" THEN [s EXCEPT !.messages = @ + 1]
    ELSE LET
        s2 == IF e.role = "user" THEN [s EXCEPT !.userMessages = @ + 1]
              ELSE IF e.role = "model" THEN [s EXCEPT !.assistantMessages = @ + 1]
              ELSE [s EXCEPT !.messages = @ + 1]
        s3 == [s2 EXCEPT !.inputTokens = @ + e.inp, !.outputTokens = @ + e.out]
    IN  IF e.model # "" THEN [s3 EXCEPT !.model = e.model] ELSE s3

GeminiLine(s, e) ==
    IF e.shape \in {"blank", "invalid"} THEN s
    ELSE LET s1 == [s EXCEPT !.messages = @ + 1] IN
    IF e.shape = "null" THEN s1
    ELSE LET
        s2 == IF e.role = "user" THEN [s1 EXCEPT !.userMessages = @ + 1]
              ELSE IF e.role = "model" THEN [s1 EXCEPT !.assistantMessages = @ + 1]
              ELSE s1
        s3 == [s2 EXCEPT !.inputTokens = @ + e.inp, !.outputTokens = @ + e.out]
    IN  IF e.model # "" THEN [s3 EXCEPT !.model = e.model] ELSE s3

RECURSIVE GeminiFold(_, _)
GeminiFold(s, lines) ==
    IF lines = << >> THEN s ELSE GeminiFold(GeminiLine(s, Head(lines)), Tail(lines))

parseGeminiSession(f, lines) ==
    LET s == GeminiFold(GeminiInit(f), lines)
    IN  IF s.inputTokens > 0 \/ s.outputTokens > 0
          THEN [s EXCEPT !.costUsd = calculateCost(s.inputTokens, s.outputTokens, s.model)]
        ELSE s

\* the switch over the provider in syncProvider; reading a file that is
\* gone fails inside the parser, which returns its zero-valued record
ParseFile(p, f, d) ==
    LET lines == IF f \in DOMAIN d THEN ContentTable(p)[d[f].content] ELSE << >>
        gone == f \notin DOMAIN d
    IN  CASE p = "claude" -> IF gone THEN ClaudeInit(f) ELSE parseClaudeSession(f, lines)
          [] p = "codex" -> IF gone THEN CodexInit(f) ELSE parseCodexSession(f, lines)
          [] OTHER -> IF gone THEN GeminiInit(f) ELSE parseGeminiSession(f, lines)

(***************************************************************************)
(* DatabaseManager: the tables files and sessions, as functions from the   *)
(* paths that have a row to the row                                        *)
(***************************************************************************)
Restrict(tbl, keep) == [g \in DOMAIN tbl \cap keep |-> tbl[g]]

getFileRecord_absent(ftbl, f) == FALSE

getFileRecord(ftbl, f) == f \in DOMAIN ftbl

needsUpdate_mtimeOnly(ftbl, f, currentMtime, currentSize) ==
    \/ ~getFileRecord(ftbl, f)
    \/ ftbl[f].mtime # currentMtime

needsUpdate(ftbl, f, currentMtime, currentSize) ==
    \/ ~getFileRecord(ftbl, f)
    \/ ftbl[f].mtime # currentMtime
    \/ ftbl[f].size # currentSize

getTrackedFiles_any(ftbl, p) == DOMAIN ftbl

getTrackedFiles(ftbl, p) == {f \in DOMAIN ftbl : ftbl[f].provider = p}

\* the values upsertSession binds: project || null, toolUses || 0,
\* cacheReadTokens || 0, cacheCreationTokens || 0
Row(s) ==
    [s EXCEPT !.project = IF @ = "" THEN NULL ELSE @,
              !.toolUses = IF @ = Absent THEN 0 ELSE @,
              !.cacheReadTokens = IF @ = Absent THEN 0 ELSE @,
              !.cacheCreationTokens = IF @ = Absent THEN 0 ELSE @]

upsertSession_insertOnly(stbl, s) ==
    [g \in DOMAIN stbl \cup {s.path} |-> IF g \in DOMAIN stbl THEN stbl[g] ELSE Row(s)]

\* UPDATE ... WHERE path = ? of every column, or INSERT
upsertSession(stbl, s) ==
    [g \in DOMAIN stbl \cup {s.path} |-> IF g = s.path THEN Row(s) ELSE stbl[g]]

upsertFileRecord_insertOnly(ftbl, f, p, mtime, size) ==
    [g \in DOMAIN ftbl \cup {f} |->
       IF g \in DOMAIN ftbl THEN ftbl[g] ELSE [provider |-> p, mtime |-> mtime, size |-> size]]

\* UPDATE files SET mtime, size (the provider column stays), or INSERT
upsertFileRecord(ftbl, f, p, mtime, size) ==
    IF f \in DOMAIN ftbl
      THEN [ftbl EXCEPT ![f].mtime = mtime, ![f].size = size]
    ELSE [g \in DOMAIN ftbl \cup {f} |->
            IF g = f THEN [provider |-> p, mtime |-> mtime, size |-> size] ELSE ftbl[g]]

\* cleanupDeletedFiles: the tracked paths of the provider that the listing lacks
DeletedFiles(ftbl, p, existingFiles) == getTrackedFiles(ftbl, p) \ existingFiles

cleanupFiles_keep(ftbl, p, existingFiles) == ftbl

cleanupFiles(ftbl, p, existingFiles) ==
    Restrict(ftbl, AllPaths \ DeletedFiles(ftbl, p, existingFiles))

cleanupSessions_keep(stbl, ftbl, p, existingFiles) == stbl

cleanupSessions(stbl, ftbl, p, existingFiles) ==
    Restrict(stbl, AllPaths \ DeletedFiles(ftbl, p, existingFiles))

Before_byPath(a, b) == PathIndex(a.path) < PathIndex(b.path)

\* ORDER BY last_message DESC: a NULL (0 here) sorts last; rows with equal
\* keys in the order of the paths
Before(a, b) ==
    \/ a.lastMessage > b.lastMessage
    \/ a.lastMessage = b.lastMessage /\ PathIndex(a.path) < PathIndex(b.path)

RECURSIVE SortRows(_)
SortRows(S) ==
    IF S = {} THEN << >>
    ELSE LET first == CHOOSE a \in S : \A b \in S \ {a} : Before(a, b)
         IN  <<first>> \o SortRows(S \ {first})

dbGetSessions(stbl, p) ==
    SortRows({stbl[f] : f \in {g \in DOMAIN stbl : stbl[g].provider = p}})

EmptyTbl == [g \in {} |-> g]

\* clearAll: DELETE FROM sessions, DELETE FROM files; db is the three tables
clearAll_everything(db) == [files |-> EmptyTbl, sessions |-> EmptyTbl, settings |-> EmptyTbl]

clearAll(db) == [db EXCEPT !.files = EmptyTbl, !.sessions = EmptyTbl]

\* saveSetting: UPDATE settings SET value, or INSERT INTO settings
saveSetting(settbl, key, value) ==
    [k \in DOMAIN settbl \cup {key} |-> IF k = key THEN value ELSE settbl[k]]

\* getSetting: SELECT value FROM settings WHERE key = ?, or the default
getSetting(settbl, key, defaultValue) ==
    IF key \in DOMAIN settbl THEN settbl[key] ELSE defaultValue

\* this.db.export(): the three tables as one image
export(ftbl, stbl, settbl) == [files |-> ftbl, sessions |-> stbl, settings |-> settbl]

(***************************************************************************)
(* Bounds of the model                                                     *)
(***************************************************************************)
\* the events that disturb a run of one call after the other on unchanged
\* directories: a change another process makes to a session directory, and
\* an IPC invocation that arrives while another one is in flight
MaxEvents == 1

MaxMtime == 2

MaxSize == 2

\* the debounce windows that pass
MaxTicks == 1

\* private syncInterval: number = 5000
syncInterval == 5000

\* the IPC invocations that can be in flight together, in the order in
\* which their slots are taken
CallOrder == <<1, 2>>

CallIds == {CallOrder[i] : i \in DOMAIN CallOrder}

(***************************************************************************)
(* State                                                                   *)
(***************************************************************************)
VARIABLES
    dirExists,     \* fs.existsSync(SESSION_DIRS[p])
    disk,          \* the log files on disk: path -> [mtime, size, content]
    unreadable,    \* paths whose subdirectory cannot be read or searched
    events,        \* the disturbing events so far
    files,         \* table files: path -> [provider, mtime, size]
    sessions,      \* table sessions: path -> row
    cache,         \* SessionParser.cache: provider -> snapshot
    lastSyncTime,  \* SessionParser.lastSyncTime
    now,           \* Date.now()
    call,          \* the IPC invocations in flight
    pass,          \* pass[c][p]: the syncProvider(p) call made by invocation c
    dbReady,       \* the promise of getDatabase() has resolved
    queue,         \* the microtask queue: the continuations that are ready,
                   \* <<c, p>> of pass[c][p] and <<c, "call">> of call[c]
    recent,        \* history: a syncProvider(p) has returned less than
                   \* syncInterval ago
    settings,      \* table settings: key -> value
    backing,       \* the backing file DB_PATH: the tables as last written
    writable,      \* fs.writeFileSync(DB_PATH, ...) succeeds
    dbInstance,    \* the DatabaseManager: "pending" while init() runs, "ready"
                   \* with this.db set, "failed" with this.db null for good
    parseIn,       \* the lines of a file that is handed to a parser on its own
    parseOut       \* the record that parser returns for them

vars == <<dirExists, disk, unreadable, events, files, sessions, cache, lastSyncTime,
          now, call, pass, dbReady, queue, recent, settings, backing, writable,
          dbInstance, parseIn, parseOut>>

NoSession == [messages |-> 0]

\* changed is history: the files of the provider have changed since this
\* pass started;
\* dirty is history: the files of the provider have changed since this pass
\* started, or another pass of the provider was in flight while it ran
NoPass ==
    [pc |-> "none", files |-> << >>, i |-> 0, mtime |-> 0, size |-> 0,
     parsed |-> NoSession, added |-> 0, updated |-> 0, deleted |-> 0, dirty |-> FALSE,
     changed |-> FALSE]

NoCall == [kind |-> "none", pc |-> "idle", provider |-> "claude", served |-> "",
           result |-> << >>]

Set(seq) == {seq[i] : i \in DOMAIN seq}

InFlight(ps) == ps.pc \in {"start", "loop", "parse"}

\* the settings the renderer saved in an earlier run of the program
SavedSettings == [k \in {"refreshRate"} |-> "15min"]

\* saveToFile: writeFileSync(DB_PATH, this.db.export()) in a try block whose
\* catch logs the error and goes on
saveToFile(ftbl, stbl, settbl) ==
    IF writable THEN export(ftbl, stbl, settbl) ELSE backing

Init ==
    /\ dirExists = [p \in Providers |-> TRUE]
    /\ disk = [f \in Paths |-> [mtime |-> 1, size |-> 1, content |-> 2]]
    /\ unreadable = {}
    /\ events = 0
    /\ files = EmptyTbl
    /\ sessions = EmptyTbl
    /\ cache = EmptyTbl
    /\ lastSyncTime = 0
    /\ now = syncInterval
    /\ call = [c \in CallIds |-> NoCall]
    /\ pass = [c \in CallIds |-> [p \in Providers |-> NoPass]]
    /\ dbReady = FALSE
    /\ queue = << >>
    /\ recent = [p \in Providers |-> FALSE]
    /\ settings = EmptyTbl
    /\ backing = export(EmptyTbl, EmptyTbl, SavedSettings)
    /\ writable = TRUE
    /\ dbInstance = "pending"
    /\ parseIn = << >>
    /\ parseOut = NoSession

(***************************************************************************)
(* The file system as the parser sees it                                   *)
(***************************************************************************)
\* fs.statSync(f) succeeds
StatOk(f) == f \in DOMAIN disk /\ f \notin unreadable

\* the stable sort of findSessionFiles: descending mtime, the walk's order
\* among equals
Newer(a, b) ==
    \/ disk[a].mtime > disk[b].mtime
    \/ disk[a].mtime = disk[b].mtime /\ PathIndex(a) < PathIndex(b)

RECURSIVE SortFiles(_)
SortFiles(S) ==
    IF S = {} THEN << >>
    ELSE LET first == CHOOSE a \in S : \A b \in S \ {a} : Newer(a, b)
         IN  <<first>> \o SortFiles(S \ {first})

\* the walk skips a subdirectory it cannot read
findSessionFiles(p) == SortFiles({f \in PathsOf(p) : StatOk(f)})

(***************************************************************************)
(* syncProvider                                                            *)
(***************************************************************************)
ShouldStore_always(session) == TRUE

\* if (session.messages > 0)
ShouldStore(session) == session.messages > 0

\* the for loop from file i on, up to the next file that needs parsing:
\* a file whose stat fails and a file that needs no update are passed over
RECURSIVE ScanFrom(_, _, _)
ScanFrom(listing, i, ftbl) ==
    IF i > Len(listing) THEN i
    ELSE IF StatOk(listing[i])
            /\ needsUpdate(ftbl, listing[i], disk[listing[i]].mtime, disk[listing[i]].size)
      THEN i
    ELSE ScanFrom(listing, i + 1, ftbl)

\* The synchronous run of syncProvider from file i of its listing to its
\* next await (the parse of a file) or to its return after the cleanup.
\* Claude files are read as a stream after the call of the parser; the
\* other parsers read the file at once.
Advance(p, ps, i, ftbl, stbl) ==
    LET j == ScanFrom(ps.files, i, ftbl) IN
    IF j > Len(ps.files)
      THEN [pass |-> [NoPass EXCEPT !.pc = "done", !.added = ps.added,
                                    !.updated = ps.updated,
                                    !.deleted = Cardinality(DeletedFiles(ftbl, p, Set(ps.files))),
                                    !.dirty = ps.dirty, !.changed = ps.changed],
            files |-> cleanupFiles(ftbl, p, Set(ps.files)),
            sessions |-> cleanupSessions(stbl, ftbl, p, Set(ps.files))]
    ELSE [pass |-> [ps EXCEPT !.pc = "parse", !.i = j,
                              !.mtime = disk[ps.files[j]].mtime,
                              !.size = disk[ps.files[j]].size,
                              !.parsed = IF p = "claude" THEN NoSession
                                         ELSE ParseFile(p, ps.files[j], disk)],
          files |-> ftbl, sessions |-> stbl]

\* the record the awaited parser call of pass ps resolves to
ResumeSession(p, ps) ==
    IF p = "claude"
      THEN ParseFile(p, ps.files[ps.i], IF StatOk(ps.files[ps.i]) THEN disk ELSE EmptyTbl)
    ELSE ps.parsed

Resume_abortOnFailure(p, ps, ftbl, stbl) ==
    LET f == ps.files[ps.i]
        session == ResumeSession(p, ps)
        isNew == ~getFileRecord(ftbl, f)
        store == ShouldStore(session)
        counted == [ps EXCEPT !.added = IF store /\ isNew THEN @ + 1 ELSE @,
                              !.updated = IF store /\ ~isNew THEN @ + 1 ELSE @]
    IN  IF ~StatOk(f)
          THEN [pass |-> [NoPass EXCEPT !.pc = "done", !.added = ps.added,
                                        !.updated = ps.updated, !.dirty = ps.dirty,
                                        !.changed = ps.changed],
                files |-> ftbl, sessions |-> stbl]
        ELSE Advance(p, counted, ps.i + 1,
                     IF store THEN upsertFileRecord(ftbl, f, p, ps.mtime, ps.size) ELSE ftbl,
                     IF store THEN upsertSession(stbl, session) ELSE stbl)

\* after the await of the parser: the upsert of the parsed file, then the
\* loop goes on
Resume(p, ps, ftbl, stbl) ==
    LET f == ps.files[ps.i]
        session == ResumeSession(p, ps)
        isNew == ~getFileRecord(ftbl, f)
        store == ShouldStore(session)
        counted == [ps EXCEPT !.added = IF store /\ isNew THEN @ + 1 ELSE @,
                              !.updated = IF store /\ ~isNew THEN @ + 1 ELSE @]
    IN  Advance(p, counted, ps.i + 1,
                IF store THEN upsertFileRecord(ftbl, f, p, ps.mtime, ps.size) ELSE ftbl,
                IF store THEN upsertSession(stbl, session) ELSE stbl)

Unavailable_clear(ps, ftbl, stbl) ==
    [pass |-> [NoPass EXCEPT !.pc = "done", !.dirty = ps.dirty, !.changed = ps.changed],
     files |-> EmptyTbl, sessions |-> EmptyTbl]

\* the return of { added: 0, updated: 0, deleted: 0 } for a missing directory
Unavailable(ps, ftbl, stbl) ==
    [pass |-> [NoPass EXCEPT !.pc = "done", !.dirty = ps.dirty, !.changed = ps.changed],
     files |-> ftbl, sessions |-> stbl]

RECURSIVE ToReturn(_, _)
ToReturn(p, r) ==
    IF r.pass.pc = "done" THEN r
    ELSE ToReturn(p, Resume(p, r.pass, r.files, r.sessions))

\* syncProvider(p) run from its call to its return with nothing else
\* running in between, on the store (ftbl, stbl)
syncProvider(p, ftbl, stbl) ==
    IF ~dirExists[p] THEN Unavailable(NoPass, ftbl, stbl)
    ELSE ToReturn(p, Advance(p, [NoPass EXCEPT !.files = findSessionFiles(p)], 1, ftbl, stbl))

\* the files that a syncProvider(p) hands to the parser, the pass run from
\* its state r to its return with nothing else running in between
RECURSIVE ParsedFrom(_, _)
ParsedFrom(p, r) ==
    IF r.pass.pc = "done" THEN {}
    ELSE {r.pass.files[r.pass.i]}
            \cup ParsedFrom(p, Resume(p, r.pass, r.files, r.sessions))

parsedFiles(p, ftbl, stbl) ==
    IF ~dirExists[p] THEN {}
    ELSE ParsedFrom(p, Advance(p, [NoPass EXCEPT !.files = findSessionFiles(p)], 1,
                               ftbl, stbl))

\* The continuation of pass[c][p] is at the head of the microtask queue;
\* the continuation after the parse of a Claude file follows the end of a
\* read stream, an I/O event, which is handled when the queue is empty.
Ready(c, p) ==
    IF p = "claude" /\ pass[c][p].pc = "parse" THEN queue = << >>
    ELSE queue # << >> /\ Head(queue) = <<c, p>>

\* the continuation of an await of the pass is never queued again
Requeue_lost(c, p, ps) ==
    LET rest == IF queue = << >> THEN queue ELSE Tail(queue) IN
    IF ps.pc = "done"
      THEN IF \A q \in Providers \ {p} : pass[c][q].pc \in {"none", "done"}
             THEN Append(rest, <<c, "call">>) ELSE rest
    ELSE rest

\* the microtask queue after a synchronous run of pass[c][p] that leaves
\* the pass as ps: an await of a settled promise queues the continuation,
\* the return of the last pass of a call queues the continuation of the call
Requeue(c, p, ps) ==
    LET rest == IF queue = << >> THEN queue ELSE Tail(queue) IN
    IF ps.pc = "done"
      THEN IF \A q \in Providers \ {p} : pass[c][q].pc \in {"none", "done"}
             THEN Append(rest, <<c, "call">>) ELSE rest
    ELSE IF ps.pc = "parse" /\ p = "claude" THEN rest
    ELSE Append(rest, <<c, p>>)

\* the effect of a synchronous run of a pass on the state
Run(c, p, r) ==
    /\ pass' = [pass EXCEPT ![c][p] = r.pass]
    /\ files' = r.files
    /\ sessions' = r.sessions
    /\ queue' = Requeue(c, p, r.pass)
    /\ recent' = IF r.pass.pc = "done" THEN [recent EXCEPT ![p] = TRUE] ELSE recent
    /\ backing' = IF \/ r.pass.added + r.pass.updated # pass[c][p].added + pass[c][p].updated
                     \/ r.pass.deleted > 0
                    THEN saveToFile(r.files, r.sessions, settings) ELSE backing
    /\ UNCHANGED <<parseIn, parseOut, settings, writable, dbInstance,
                   dirExists, disk, unreadable, events, cache, lastSyncTime, now, call,
                   dbReady>>

\* after await this.ensureDb(): the directory test and the listing
PassBegin(c, p) ==
    /\ pass[c][p].pc = "start"
    /\ Ready(c, p)
    /\ Run(c, p, IF ~dirExists[p] THEN Unavailable(pass[c][p], files, sessions)
                 ELSE [pass |-> [pass[c][p] EXCEPT !.pc = "loop",
                                                   !.files = findSessionFiles(p)],
                       files |-> files, sessions |-> sessions])

\* after await this.findSessionFiles(baseDir): the loop starts
PassLoop(c, p) ==
    /\ pass[c][p].pc = "loop"
    /\ Ready(c, p)
    /\ Run(c, p, Advance(p, pass[c][p], 1, files, sessions))

\* after the await of the parser
PassResume(c, p) ==
    /\ pass[c][p].pc = "parse"
    /\ Ready(c, p)
    /\ Run(c, p, Resume(p, pass[c][p], files, sessions))

(***************************************************************************)
(* The IPC handlers and the methods of SessionParser they call             *)
(***************************************************************************)
Overlapped(c, p) == \E c2 \in CallIds \ {c} : InFlight(pass[c2][p])

\* invocation c calls syncProvider(p) for every p in P: each call runs to
\* its first await
StartPasses(c, P) ==
    /\ queue' = Tail(queue) \o [i \in 1..Cardinality(P) |->
                    <<c, SelectSeq(ProviderOrder, LAMBDA p : p \in P)[i]>>]
    /\ pass' = [c2 \in CallIds |-> [p \in Providers |->
                  IF c2 = c /\ p \in P
                    THEN [NoPass EXCEPT !.pc = "start", !.dirty = Overlapped(c, p)]
                  ELSE IF c2 # c /\ p \in P /\ InFlight(pass[c2][p])
                    THEN [pass[c2][p] EXCEPT !.dirty = TRUE]
                  ELSE pass[c2][p]]]

\* the continuation of call[c] is at the head of the microtask queue
CallReady(c) == queue # << >> /\ Head(queue) = <<c, "call">>

clearCache_keep == cache

\* clearCache: this.cache.clear()
clearCache == EmptyTbl

\* ipcMain.handle, once the event loop is free: the handler runs to the
\* first await of the method it calls, this.ensureDb(), which waits for
\* the database if it is not ready; refresh-data clears the cache before
Invoke(c, kind, p) ==
    /\ queue = << >>
    /\ call[c].pc = "idle"
    /\ \A c2 \in CallIds : c2 < c => call[c2].pc # "idle"
    /\ call' = [call EXCEPT ![c] = [NoCall EXCEPT !.kind = kind, !.pc = "ensureDb",
                                                  !.provider = p]]
    /\ IF \E c2 \in CallIds : call[c2].pc # "idle"
         THEN events < MaxEvents /\ events' = events + 1
         ELSE events' = events
    /\ cache' = IF kind = "refreshData" THEN clearCache ELSE cache
    /\ queue' = IF dbReady THEN <<<<c, "call">>>> ELSE << >>
    /\ UNCHANGED <<parseIn, parseOut, settings, writable, backing, dbInstance,
                   dirExists, disk, unreadable, files, sessions, lastSyncTime,
                   now, pass, dbReady, recent>>

\* init() of the DatabaseManager succeeds: the tables are read from the
\* backing file, and the promise of getDatabase() the parser waits for
\* resolves: the calls that wait for it go on, the first invoked first
DbReady ==
    /\ ~dbReady
    /\ dbInstance = "pending"
    /\ dbReady' = TRUE
    /\ dbInstance' = "ready"
    /\ files' = backing.files
    /\ sessions' = backing.sessions
    /\ settings' = backing.settings
    /\ queue' = [i \in 1..Cardinality({c \in CallIds : call[c].pc = "ensureDb"}) |->
                   <<SelectSeq(CallOrder, LAMBDA c : call[c].pc = "ensureDb")[i], "call">>]
    /\ UNCHANGED <<parseIn, parseOut, writable, backing, dirExists, disk, unreadable, events, cache,
                   lastSyncTime, now, call, pass, recent>>

\* getAllUsage after await this.ensureDb(): syncAll calls the three
\* syncProvider
UsageEnsured(c) ==
    /\ CallReady(c)
    /\ call[c].pc = "ensureDb"
    /\ call[c].kind \in {"getAllUsage", "refreshData"}
    /\ call' = [call EXCEPT ![c].pc = "sync"]
    /\ StartPasses(c, Providers)
    /\ UNCHANGED <<parseIn, parseOut, settings, writable, backing, dbInstance,
                   dirExists, disk, unreadable, events, files, sessions, cache,
                   lastSyncTime, now, dbReady, recent>>

\* the test of getSessions: cache.has(cacheKey) && now - lastSyncTime < syncInterval
CacheIsRecent(p) == p \in DOMAIN cache /\ now - lastSyncTime < syncInterval

\* getSessions after await this.ensureDb()
SessionsEnsured(c) ==
    /\ CallReady(c)
    /\ call[c].pc = "ensureDb"
    /\ call[c].kind = "getSessions"
    /\ LET p == call[c].provider IN
       IF CacheIsRecent(p)
         THEN /\ call' = [call EXCEPT ![c].pc = "done", ![c].served = "cache",
                                      ![c].result = cache[p]]
              /\ queue' = Append(Tail(queue), <<c, "call">>)
              /\ UNCHANGED pass
       ELSE IF ~dirExists[p]
         THEN /\ call' = [call EXCEPT ![c].pc = "done", ![c].served = "empty"]
              /\ queue' = Append(Tail(queue), <<c, "call">>)
              /\ UNCHANGED pass
       ELSE /\ call' = [call EXCEPT ![c].pc = "sync", ![c].served = "sync"]
            /\ StartPasses(c, {p})
    /\ UNCHANGED <<parseIn, parseOut, settings, writable, backing, dbInstance,
                   dirExists, disk, unreadable, events, files, sessions, cache,
                   lastSyncTime, now, dbReady, recent>>

\* syncAll after await Promise.all: this.lastSyncTime = Date.now()
UsageSynced(c) ==
    /\ CallReady(c)
    /\ call[c].pc = "sync"
    /\ call[c].kind \in {"getAllUsage", "refreshData"}
    /\ lastSyncTime' = now
    /\ call' = [call EXCEPT ![c].pc = "synced"]
    /\ pass' = [pass EXCEPT ![c] = [p \in Providers |-> NoPass]]
    /\ queue' = Append(Tail(queue), <<c, "call">>)
    /\ UNCHANGED <<parseIn, parseOut, settings, writable, backing, dbInstance,
                   dirExists, disk, unreadable, events, files, sessions, cache, now,
                   dbReady, recent>>

\* the sum of a field over the rows of a snapshot
RECURSIVE SumOver(_, _)
SumOver(rows, field) ==
    IF rows = << >> THEN 0 ELSE Head(rows)[field] + SumOver(Tail(rows), field)

\* providerStats in the loop of getAllUsage: the sessions of the provider as
\* the store holds them, and available: fs.existsSync(SESSION_DIRS[provider])
providerStats(stbl, p) ==
    LET rows == dbGetSessions(stbl, p) IN
    [sessions |-> Len(rows),
     messages |-> SumOver(rows, "messages"),
     inputTokens |-> SumOver(rows, "inputTokens"),
     outputTokens |-> SumOver(rows, "outputTokens"),
     costUsd |-> SumOver(rows, "costUsd"),
     available |-> dirExists[p]]

usageTotals_inputOnly(stats) ==
    LET all == [i \in DOMAIN ProviderOrder |-> stats[ProviderOrder[i]]] IN
    [sessions |-> SumOver(all, "sessions"),
     messages |-> SumOver(all, "messages"),
     inputTokens |-> SumOver(all, "inputTokens"),
     outputTokens |-> SumOver(all, "outputTokens"),
     totalTokens |-> SumOver(all, "inputTokens"),
     costUsd |-> SumOver(all, "costUsd")]

\* usage.totals: the sums over the three providers
usageTotals(stats) ==
    LET all == [i \in DOMAIN ProviderOrder |-> stats[ProviderOrder[i]]] IN
    [sessions |-> SumOver(all, "sessions"),
     messages |-> SumOver(all, "messages"),
     inputTokens |-> SumOver(all, "inputTokens"),
     outputTokens |-> SumOver(all, "outputTokens"),
     totalTokens |-> SumOver(all, "inputTokens") + SumOver(all, "outputTokens"),
     costUsd |-> SumOver(all, "costUsd")]

\* the sessions in the order the provider loop of getAllUsage visits them
loopRows(stbl) ==
    dbGetSessions(stbl, "claude") \o dbGetSessions(stbl, "codex")
        \o dbGetSessions(stbl, "gemini")

\* session.model || 'unknown'
modelKey(r) == IF r.model = NULL \/ r.model = "" THEN "unknown" ELSE r.model

\* new Date(lastMessage).toISOString().split('T')[0]: the UTC day, a day
\* being ten units of the model's clock
toISODate(t) == t \div 10

\* session.project || `${provider}-sessions`
projectName(r) ==
    IF r.project # NULL /\ r.project # "" THEN r.project
    ELSE CASE r.provider = "claude" -> "claude-sessions"
           [] r.provider = "codex" -> "codex-sessions"
           [] OTHER -> "gemini-sessions"

\* a bucket of byModel or byDate after one more session
Bucketed(acc, k, r) ==
    LET old == IF k \in DOMAIN acc THEN acc[k]
               ELSE [sessions |-> 0, inputTokens |-> 0, outputTokens |-> 0, costUsd |-> 0]
        new == [sessions |-> old.sessions + 1,
                inputTokens |-> old.inputTokens + r.inputTokens,
                outputTokens |-> old.outputTokens + r.outputTokens,
                costUsd |-> old.costUsd + r.costUsd]
    IN  [x \in DOMAIN acc \cup {k} |-> IF x = k THEN new ELSE acc[x]]

RECURSIVE byModel(_, _)
byModel(acc, rows) ==
    IF rows = << >> THEN acc
    ELSE byModel(Bucketed(acc, modelKey(Head(rows)), Head(rows)), Tail(rows))

RECURSIVE byDate_undatedToo(_, _)
byDate_undatedToo(acc, rows) ==
    IF rows = << >> THEN acc
    ELSE byDate_undatedToo(Bucketed(acc, toISODate(Head(rows).lastMessage), Head(rows)),
                           Tail(rows))

RECURSIVE byDate(_, _)
byDate(acc, rows) ==
    IF rows = << >> THEN acc
    ELSE IF Head(rows).lastMessage # 0
      THEN byDate(Bucketed(acc, toISODate(Head(rows).lastMessage), Head(rows)), Tail(rows))
    ELSE byDate(acc, Tail(rows))

ProjectFolded_overwrite(acc, r) ==
    LET k == projectName(r)
        old == IF k \in DOMAIN acc THEN acc[k]
               ELSE [sessions |-> 0, messages |-> 0, inputTokens |-> 0,
                     outputTokens |-> 0, costUsd |-> 0, provider |-> r.provider,
                     lastActivity |-> 0]
        new == [old EXCEPT !.sessions = @ + 1,
                           !.messages = @ + r.messages,
                           !.inputTokens = @ + r.inputTokens,
                           !.outputTokens = @ + r.outputTokens,
                           !.costUsd = @ + r.costUsd,
                           !.lastActivity =
                               IF r.lastMessage # 0 THEN r.lastMessage ELSE @]
    IN  [x \in DOMAIN acc \cup {k} |-> IF x = k THEN new ELSE acc[x]]

\* usage.byProject[projectName] after one more session
ProjectFolded(acc, r) ==
    LET k == projectName(r)
        old == IF k \in DOMAIN acc THEN acc[k]
               ELSE [sessions |-> 0, messages |-> 0, inputTokens |-> 0,
                     outputTokens |-> 0, costUsd |-> 0, provider |-> r.provider,
                     lastActivity |-> 0]
        new == [old EXCEPT !.sessions = @ + 1,
                           !.messages = @ + r.messages,
                           !.inputTokens = @ + r.inputTokens,
                           !.outputTokens = @ + r.outputTokens,
                           !.costUsd = @ + r.costUsd,
                           !.lastActivity =
                               IF r.lastMessage # 0 /\ (@ = 0 \/ r.lastMessage > @)
                                 THEN r.lastMessage ELSE @]
    IN  [x \in DOMAIN acc \cup {k} |-> IF x = k THEN new ELSE acc[x]]

RECURSIVE byProject(_, _)
byProject(acc, rows) ==
    IF rows = << >> THEN acc ELSE byProject(ProjectFolded(acc, Head(rows)), Tail(rows))

\* sessions.slice(0, 10) and recentSessions.slice(0, 20)
RecentPerProvider == 10
RecentLimit == 20

slice(rows, n) == SubSeq(rows, 1, IF Len(rows) < n THEN Len(rows) ELSE n)

\* Array.prototype.sort with the comparator dateB - dateA, a missing
\* lastMessage counting as 0: a stable sort, newest first
RECURSIVE SortInsert(_, _)
SortInsert(sorted, r) ==
    IF sorted = << >> THEN <<r>>
    ELSE IF Head(sorted).lastMessage >= r.lastMessage
      THEN <<Head(sorted)>> \o SortInsert(Tail(sorted), r)
    ELSE <<r>> \o sorted

RECURSIVE SortRecent(_, _)
SortRecent(sorted, rows) ==
    IF rows = << >> THEN sorted
    ELSE SortRecent(SortInsert(sorted, Head(rows)), Tail(rows))

recentSessions_unsorted(stbl) ==
    slice(slice(dbGetSessions(stbl, "claude"), RecentPerProvider)
              \o slice(dbGetSessions(stbl, "codex"), RecentPerProvider)
              \o slice(dbGetSessions(stbl, "gemini"), RecentPerProvider),
          RecentLimit)

recentSessions(stbl) ==
    slice(SortRecent(<< >>,
              slice(dbGetSessions(stbl, "claude"), RecentPerProvider)
                  \o slice(dbGetSessions(stbl, "codex"), RecentPerProvider)
                  \o slice(dbGetSessions(stbl, "gemini"), RecentPerProvider)),
          RecentLimit)

\* the snapshot getAllUsage returns, with the sessions it was computed from
UsageData(stbl) ==
    LET stats == [p \in Providers |-> providerStats(stbl, p)] IN
    [providers |-> stats,
     totals |-> usageTotals(stats),
     byModel |-> byModel(EmptyTbl, loopRows(stbl)),
     byDate |-> byDate(EmptyTbl, loopRows(stbl)),
     byProject |-> byProject(EmptyTbl, loopRows(stbl)),
     recentSessions |-> recentSessions(stbl),
     rows |-> [p \in Providers |-> dbGetSessions(stbl, p)]]

\* getAllUsage after await this.syncAll(): the sessions of every provider
\* are read from the store
UsageFinish(c) ==
    /\ CallReady(c)
    /\ call[c].pc = "synced"
    /\ call' = [call EXCEPT ![c].pc = "done", ![c].served = "sync",
                            ![c].result = UsageData(sessions)]
    /\ queue' = Append(Tail(queue), <<c, "call">>)
    /\ UNCHANGED <<parseIn, parseOut, settings, writable, backing, dbInstance,
                   dirExists, disk, unreadable, events, files, sessions, cache,
                   lastSyncTime, now, pass, dbReady, recent>>

\* getSessions after await this.syncProvider(provider)
SessionsFinish(c) ==
    /\ CallReady(c)
    /\ call[c].pc = "sync"
    /\ call[c].kind = "getSessions"
    /\ LET p == call[c].provider
           got == dbGetSessions(sessions, p)
       IN  /\ cache' = [q \in DOMAIN cache \cup {p} |-> IF q = p THEN got ELSE cache[q]]
           /\ call' = [call EXCEPT ![c].pc = "done", ![c].result = got]
    /\ pass' = [pass EXCEPT ![c] = [p \in Providers |-> NoPass]]
    /\ queue' = Append(Tail(queue), <<c, "call">>)
    /\ UNCHANGED <<parseIn, parseOut, settings, writable, backing, dbInstance,
                   dirExists, disk, unreadable, events, files, sessions, lastSyncTime,
                   now, dbReady, recent>>

\* the handler's promise resolves: the result goes to the renderer
Reply(c) ==
    /\ CallReady(c)
    /\ call[c].pc = "done"
    /\ call' = [call EXCEPT ![c] = NoCall]
    /\ queue' = Tail(queue)
    /\ UNCHANGED <<parseIn, parseOut, settings, writable, backing, dbInstance,
                   dirExists, disk, unreadable, events, files, sessions, cache,
                   lastSyncTime, now, pass, dbReady, recent>>

(***************************************************************************)
(* The environment: other processes change the session directories, and    *)
(* time passes                                                             *)
(***************************************************************************)
\* another process changes the files of p between two turns of the event
\* loop
FsChanged(p) ==
    /\ queue = << >>
    /\ events < MaxEvents
    /\ events' = events + 1
    /\ pass' = [c \in CallIds |-> [q \in Providers |->
                  IF q = p /\ pass[c][q].pc # "none"
                    THEN [pass[c][q] EXCEPT !.dirty = TRUE, !.changed = TRUE]
                  ELSE pass[c][q]]]
    /\ UNCHANGED <<parseIn, parseOut, settings, writable, backing, dbInstance,
                   files, sessions, cache, lastSyncTime, now, call, dbReady, queue,
                   recent>>

WriteFile(f, mtime, size, content) ==
    /\ f \notin unreadable
    /\ IF f \in DOMAIN disk
         THEN disk[f] # [mtime |-> mtime, size |-> size, content |-> content]
         ELSE TRUE
    /\ disk' = [g \in DOMAIN disk \cup {f} |->
                  IF g = f THEN [mtime |-> mtime, size |-> size, content |-> content]
                  ELSE disk[g]]
    /\ dirExists' = [dirExists EXCEPT ![PathProvider(f)] = TRUE]
    /\ UNCHANGED unreadable
    /\ FsChanged(PathProvider(f))

DeleteFile(f) ==
    /\ StatOk(f)
    /\ disk' = Restrict(disk, AllPaths \ {f})
    /\ UNCHANGED <<dirExists, unreadable>>
    /\ FsChanged(PathProvider(f))

\* the permissions of the subdirectory of f are taken away or given back
Chmod(f) ==
    /\ f \in DOMAIN disk
    /\ unreadable' = IF f \in unreadable THEN unreadable \ {f} ELSE unreadable \cup {f}
    /\ UNCHANGED <<dirExists, disk>>
    /\ FsChanged(PathProvider(f))

\* the session directory of p is removed with all it holds
RemoveDir(p) ==
    /\ dirExists[p]
    /\ dirExists' = [dirExists EXCEPT ![p] = FALSE]
    /\ disk' = Restrict(disk, AllPaths \ PathsOf(p))
    /\ unreadable' = unreadable \ PathsOf(p)
    /\ FsChanged(p)

\* a debounce window passes while the event loop is idle
Tick ==
    /\ queue = << >>
    /\ now < syncInterval * (MaxTicks + 1)
    /\ now' = now + syncInterval
    /\ recent' = [p \in Providers |-> FALSE]
    /\ UNCHANGED <<parseIn, parseOut, settings, writable, backing, dbInstance,
                   dirExists, disk, unreadable, events, files, sessions, cache,
                   lastSyncTime, call, pass, dbReady, queue>>

Next ==
    \/ \E c \in CallIds : \E kind \in {"getAllUsage", "refreshData"} : Invoke(c, kind, "claude")
    \/ \E c \in CallIds : \E p \in Providers : Invoke(c, "getSessions", p)
    \/ DbReady
    \/ \E c \in CallIds : UsageEnsured(c)
    \/ \E c \in CallIds : SessionsEnsured(c)
    \/ \E c \in CallIds : \E p \in Providers : PassBegin(c, p)
    \/ \E c \in CallIds : \E p \in Providers : PassLoop(c, p)
    \/ \E c \in CallIds : \E p \in Providers : PassResume(c, p)
    \/ \E c \in CallIds : UsageSynced(c)
    \/ \E c \in CallIds : UsageFinish(c)
    \/ \E c \in CallIds : SessionsFinish(c)
    \/ \E c \in CallIds : Reply(c)
    \/ \E f \in Paths : \E m \in 1..MaxMtime : \E s \in 1..MaxSize : \E k \in ContentIds :
          WriteFile(f, m, s, k)
    \/ \E f \in Paths : DeleteFile(f)
    \/ \E f \in Paths : Chmod(f)
    \/ \E p \in Providers : RemoveDir(p)
    \/ Tick

Spec == Init /\ [][Next]_vars

(***************************************************************************)
(* forceRebuild, which no IPC handler calls, next to the handlers          *)
(***************************************************************************)
\* forceRebuild after await this.ensureDb(): db.clearAll(), this.cache.clear(),
\* then syncAll calls the three syncProvider
RebuildEnsured(c) ==
    /\ CallReady(c)
    /\ call[c].pc = "ensureDb"
    /\ call[c].kind = "forceRebuild"
    /\ LET db == clearAll(export(files, sessions, settings)) IN
         /\ files' = db.files
         /\ sessions' = db.sessions
         /\ settings' = db.settings
         /\ backing' = saveToFile(db.files, db.sessions, db.settings)
    /\ cache' = clearCache
    /\ call' = [call EXCEPT ![c].pc = "sync"]
    /\ StartPasses(c, Providers)
    /\ UNCHANGED <<parseIn, parseOut, dirExists, disk, unreadable, events, lastSyncTime, now, dbReady,
                   recent, writable, dbInstance>>

\* syncAll after await Promise.all: this.lastSyncTime = Date.now(); then
\* forceRebuild returns
RebuildSynced(c) ==
    /\ CallReady(c)
    /\ call[c].pc = "sync"
    /\ call[c].kind = "forceRebuild"
    /\ lastSyncTime' = now
    /\ call' = [call EXCEPT ![c].pc = "done", ![c].served = "sync"]
    /\ pass' = [pass EXCEPT ![c] = [p \in Providers |-> NoPass]]
    /\ queue' = Append(Tail(queue), <<c, "call">>)
    /\ UNCHANGED <<parseIn, parseOut, dirExists, disk, unreadable, events, files, sessions, cache, now,
                   dbReady, recent, settings, backing, writable, dbInstance>>

RebuildNext ==
    \/ \E c \in CallIds : \E kind \in {"getAllUsage", "forceRebuild"} : Invoke(c, kind, "claude")
    \/ DbReady
    \/ \E c \in CallIds : UsageEnsured(c)
    \/ \E c \in CallIds : RebuildEnsured(c)
    \/ \E c \in CallIds : \E p \in Providers : PassBegin(c, p)
    \/ \E c \in CallIds : \E p \in Providers : PassLoop(c, p)
    \/ \E c \in CallIds : \E p \in Providers : PassResume(c, p)
    \/ \E c \in CallIds : UsageSynced(c)
    \/ \E c \in CallIds : RebuildSynced(c)
    \/ \E c \in CallIds : UsageFinish(c)
    \/ \E c \in CallIds : Reply(c)
    \/ \E f \in Paths : \E m \in 1..MaxMtime : \E s \in 1..MaxSize : \E k \in ContentIds :
          WriteFile(f, m, s, k)
    \/ \E f \in Paths : DeleteFile(f)
    \/ \E f \in Paths : Chmod(f)
    \/ \E p \in Providers : RemoveDir(p)
    \/ Tick

RebuildSpec == Init /\ [][RebuildNext]_vars

\* a turn of the event loop: the continuation at the head of the microtask
\* queue runs, or, the queue empty, a completed I/O operation (the
\* initialization of the database, the end of a read stream) is delivered
Turn ==
    \/ DbReady
    \/ \E c \in CallIds : UsageEnsured(c)
    \/ \E c \in CallIds : RebuildEnsured(c)
    \/ \E c \in CallIds : \E p \in Providers : PassBegin(c, p)
    \/ \E c \in CallIds : \E p \in Providers : PassLoop(c, p)
    \/ \E c \in CallIds : \E p \in Providers : PassResume(c, p)
    \/ \E c \in CallIds : UsageSynced(c)
    \/ \E c \in CallIds : RebuildSynced(c)
    \/ \E c \in CallIds : UsageFinish(c)
    \/ \E c \in CallIds : Reply(c)

\* there is something for the event loop to run: a queued continuation,
\* or the completion of the database initialization or of a read stream
TurnEnabled ==
    \/ queue # << >>
    \/ ~dbReady /\ dbInstance = "pending"
    \/ \E c \in CallIds : pass[c]["claude"].pc = "parse"

\* the event loop does not stop while it has something to run: weak
\* fairness of Turn, with its enabling condition written out
LiveSpec == RebuildSpec /\ ([]<>(~TurnEnabled) \/ []<><<Turn>>_vars)

(***************************************************************************)
(* getSessions('claude') over a session directory that holds two log files *)
(***************************************************************************)
ClaudePaths == {"c1", "c2"}

TwoFilesInit ==
    /\ dirExists = [p \in Providers |-> p = "claude"]
    /\ disk \in [ClaudePaths -> [mtime : 1..MaxMtime, size : {1}, content : {1, 2}]]
    /\ unreadable = {}
    /\ events = 0
    /\ files = EmptyTbl
    /\ sessions = EmptyTbl
    /\ cache = EmptyTbl
    /\ lastSyncTime = 0
    /\ now = syncInterval
    /\ call = [c \in CallIds |-> NoCall]
    /\ pass = [c \in CallIds |-> [p \in Providers |-> NoPass]]
    /\ dbReady = FALSE
    /\ queue = << >>
    /\ recent = [p \in Providers |-> FALSE]
    /\ settings = EmptyTbl
    /\ backing = export(EmptyTbl, EmptyTbl, SavedSettings)
    /\ writable = TRUE
    /\ dbInstance = "pending"
    /\ parseIn = << >>
    /\ parseOut = NoSession

TwoFilesNext ==
    \/ \E c \in CallIds : Invoke(c, "getSessions", "claude")
    \/ DbReady
    \/ \E c \in CallIds : SessionsEnsured(c)
    \/ \E c \in CallIds : PassBegin(c, "claude")
    \/ \E c \in CallIds : PassLoop(c, "claude")
    \/ \E c \in CallIds : PassResume(c, "claude")
    \/ \E c \in CallIds : SessionsFinish(c)
    \/ \E c \in CallIds : Reply(c)
    \/ \E f \in ClaudePaths : \E m \in 1..MaxMtime : \E s \in 1..MaxSize : \E k \in ContentIds :
          WriteFile(f, m, s, k)
    \/ \E f \in ClaudePaths : DeleteFile(f)
    \/ \E f \in ClaudePaths : Chmod(f)
    \/ Tick

TwoFilesSpec == TwoFilesInit /\ [][TwoFilesNext]_vars

(***************************************************************************)
(* parseCodexSession on its own, applied to a .jsonl file of a few lines   *)
(***************************************************************************)
MaxLen == 3

\* the lines a Codex file is made of: token_count events with their running
\* totals, one with total_token_usage but no input_tokens and output_tokens,
\* one without info, a user message, and a line that is not JSON
CodexEvents ==
    {[Ev EXCEPT !.type = "event_msg", !.ptype = "token_count", !.info = "usage",
                !.inp = 100, !.out = 50, !.ts = 1],
     [Ev EXCEPT !.type = "event_msg", !.ptype = "token_count", !.info = "usage",
                !.inp = 250, !.out = 120, !.ts = 2],
     [Ev EXCEPT !.type = "event_msg", !.ptype = "token_count", !.info = "usage"],
     [Ev EXCEPT !.type = "event_msg", !.ptype = "token_count"],
     [Ev EXCEPT !.type = "event_msg", !.ptype = "user_message", !.ts = 1],
     InvalidLine}

SeqsUpTo(S, n) == UNION {[1..k -> S] : k \in 0..n}

CodexFileInit ==
    /\ dirExists = [p \in Providers |-> TRUE]
    /\ disk = [f \in Paths |-> [mtime |-> 1, size |-> 1, content |-> 2]]
    /\ unreadable = {}
    /\ events = 0
    /\ files = EmptyTbl
    /\ sessions = EmptyTbl
    /\ cache = EmptyTbl
    /\ lastSyncTime = 0
    /\ now = syncInterval
    /\ call = [c \in CallIds |-> NoCall]
    /\ pass = [c \in CallIds |-> [p \in Providers |-> NoPass]]
    /\ dbReady = FALSE
    /\ queue = << >>
    /\ recent = [p \in Providers |-> FALSE]
    /\ settings = EmptyTbl
    /\ backing = export(EmptyTbl, EmptyTbl, SavedSettings)
    /\ writable = TRUE
    /\ dbInstance = "pending"
    /\ parseIn \in SeqsUpTo(CodexEvents, MaxLen)
    /\ parseOut = NoSession

\* parseCodexSession('x1'), x1 a .jsonl file that holds the lines parseIn
ParseCodex ==
    /\ parseOut = NoSession
    /\ parseOut' = parseCodexSession("x1", parseIn)
    /\ UNCHANGED <<dirExists, disk, unreadable, events, files, sessions, cache,
                   lastSyncTime, now, call, pass, dbReady, queue, recent, settings,
                   backing, writable, dbInstance, parseIn>>

CodexSpec == CodexFileInit /\ [][ParseCodex]_vars

(***************************************************************************)
(* Pricing of one Codex session: the file names its model in a            *)
(* turn_context line and its usage in a token_count line, and the cost of  *)
(* the parsed session is calculateCost of the two.                         *)
(***************************************************************************)
ModelNames ==
    {PricingKeys[i] : i \in DOMAIN PricingKeys} \cup
    {"gpt-4o-mini-2024-07-18", "gpt-4o-2024-08-06", "o1-mini-2024-09-12",
     "o1-preview", "openai/gpt-4-turbo-preview", "claude-opus-4-1-20250805",
     "claude-sonnet-4-5", "claude-haiku-4-5", "gemini-2.5-pro", "gpt-5", ""}

TokenPairs == {<<1, 0>>, <<0, 1>>, <<2, 3>>}

PricedFile(m, t) ==
    <<[Ev EXCEPT !.type = "turn_context", !.model = m],
      [Ev EXCEPT !.type = "event_msg", !.ptype = "token_count", !.info = "usage",
                 !.inp = t[1], !.out = t[2]]>>

PricingInit ==
    /\ dirExists = [p \in Providers |-> TRUE]
    /\ disk = [f \in Paths |-> [mtime |-> 1, size |-> 1, content |-> 2]]
    /\ unreadable = {}
    /\ events = 0
    /\ files = EmptyTbl
    /\ sessions = EmptyTbl
    /\ cache = EmptyTbl
    /\ lastSyncTime = 0
    /\ now = syncInterval
    /\ call = [c \in CallIds |-> NoCall]
    /\ pass = [c \in CallIds |-> [p \in Providers |-> NoPass]]
    /\ dbReady = FALSE
    /\ queue = << >>
    /\ recent = [p \in Providers |-> FALSE]
    /\ settings = EmptyTbl
    /\ backing = export(EmptyTbl, EmptyTbl, SavedSettings)
    /\ writable = TRUE
    /\ dbInstance = "pending"
    /\ parseIn \in {PricedFile(m, t) : m \in ModelNames, t \in TokenPairs}
    /\ parseOut = NoSession

PricingSpec == PricingInit /\ [][ParseCodex]_vars

(***************************************************************************)
(* The three parsers over one file: parseIn holds the lines, and each      *)
(* parser reads from a line the fields it knows (a usage-bearing line      *)
(* carries the usage in the place the parser looks for it).                *)
(***************************************************************************)
LineEvents ==
    {[Ev EXCEPT !.type = "user", !.role = "user", !.ts = 1],
     [Ev EXCEPT !.type = "assistant", !.role = "assistant", !.inp = 10, !.out = 5,
                !.ts = 2],
     [Ev EXCEPT !.type = "assistant", !.role = "assistant", !.tool = "tool_use",
                !.inp = 20, !.out = 8, !.ts = 3],
     \* usage and a timestamp next to a content list that holds a null entry
     [Ev EXCEPT !.type = "assistant", !.role = "assistant", !.tool = "nullentry",
                !.inp = 5, !.out = 2, !.ts = 1],
     \* usage without a timestamp
     [Ev EXCEPT !.type = "assistant", !.role = "assistant", !.inp = 7, !.out = 3],
     \* the role-bearing lines of a Codex file and of a Gemini file
     [Ev EXCEPT !.type = "response_item", !.ptype = "message", !.role = "user"],
     [Ev EXCEPT !.type = "event_msg", !.ptype = "message", !.role = "assistant"],
     [Ev EXCEPT !.type = "event_msg", !.ptype = "agent_message"],
     [Ev EXCEPT !.role = "model", !.inp = 4, !.out = 1],
     [Ev EXCEPT !.shape = "null"],
     InvalidLine}

ParsersInit ==
    /\ dirExists = [p \in Providers |-> TRUE]
    /\ disk = [f \in Paths |-> [mtime |-> 1, size |-> 1, content |-> 2]]
    /\ unreadable = {}
    /\ events = 0
    /\ files = EmptyTbl
    /\ sessions = EmptyTbl
    /\ cache = EmptyTbl
    /\ lastSyncTime = 0
    /\ now = syncInterval
    /\ call = [c \in CallIds |-> NoCall]
    /\ pass = [c \in CallIds |-> [p \in Providers |-> NoPass]]
    /\ dbReady = FALSE
    /\ queue = << >>
    /\ recent = [p \in Providers |-> FALSE]
    /\ settings = EmptyTbl
    /\ backing = export(EmptyTbl, EmptyTbl, SavedSettings)
    /\ writable = TRUE
    /\ dbInstance = "pending"
    /\ parseIn \in SeqsUpTo(LineEvents, MaxLen)
    /\ parseOut = NoSession

ParseRest ==
    <<dirExists, disk, unreadable, events, files, sessions, cache, lastSyncTime,
      now, call, pass, dbReady, queue, recent, settings, backing, writable,
      dbInstance, parseIn>>

\* parseClaudeSession('c1') of a file that holds the lines parseIn
ParseClaude ==
    /\ parseOut = NoSession
    /\ parseOut' = parseClaudeSession("c1", parseIn)
    /\ UNCHANGED ParseRest

\* parseCodexSession('x1'), x1 a .jsonl file
ParseCodexLines ==
    /\ parseOut = NoSession
    /\ parseOut' = parseCodexSession("x1", parseIn)
    /\ UNCHANGED ParseRest

\* parseGeminiSession('g1')
ParseGemini ==
    /\ parseOut = NoSession
    /\ parseOut' = parseGeminiSession("g1", parseIn)
    /\ UNCHANGED ParseRest

ParsersNext == ParseClaude \/ ParseCodexLines \/ ParseGemini

ParsersSpec == ParsersInit /\ [][ParsersNext]_vars

\* parseCodexSession('x2'), x2 a .json file that holds the array parseIn
ParseCodexArray ==
    /\ parseOut = NoSession
    /\ parseOut' = parseCodexSession("x2", parseIn)
    /\ UNCHANGED ParseRest

CountersSpec == ParsersInit /\ [][ParsersNext \/ ParseCodexArray]_vars

(***************************************************************************)
(* getAllUsage over a given store: the sessions table holds rows as the    *)
(* parsers and upsertSession leave them, either up to four sessions of     *)
(* varied project, model and lastMessage, or many sessions per provider.   *)
(***************************************************************************)
MaxStored == 11

\* a stored session of provider p: k tells the sessions' counters apart
StoredRow(f, p, proj, model, last, k) ==
    [path |-> f, provider |-> p, sessionId |-> f, project |-> proj,
     messages |-> k + 1, userMessages |-> 1, assistantMessages |-> k, toolUses |-> 0,
     inputTokens |-> 10 * k, outputTokens |-> k,
     cacheReadTokens |-> 0, cacheCreationTokens |-> 0,
     costUsd |-> k, model |-> model, firstMessage |-> last, lastMessage |-> last,
     duration |-> 0]

\* what the parsers can leave in a row: a Claude session has the project of
\* its directory, a Codex session the project of its cwd or none, a Gemini
\* session has neither a project nor timestamps
RowChoices(f) ==
    IF PathProvider(f) = "claude"
      THEN {StoredRow(f, "claude", pr, m, t, PathIndex(f)) :
                pr \in {"trees/project", "work/api"},
                m \in {NULL, "claude-sonnet-4-20250514"}, t \in {0, 5, 12}}
    ELSE IF PathProvider(f) = "codex"
      THEN {StoredRow(f, "codex", pr, m, t, PathIndex(f)) :
                pr \in {NULL, "trees/project"}, m \in {NULL, "gpt-4o"}, t \in {0, 5, 12}}
    ELSE {StoredRow(f, "gemini", NULL, m, 0, PathIndex(f)) :
                m \in {"gemini-2.0-flash", "gemini-1.5-pro"}}

\* a path has one of its rows or none
FewSessions ==
    {LET rows == {a, b, c, d} \ {NoSession}
     IN  [f \in {r.path : r \in rows} |-> CHOOSE r \in rows : r.path = f] :
        a \in RowChoices("c1") \cup {NoSession}, b \in RowChoices("c2") \cup {NoSession},
        c \in RowChoices("x1") \cup {NoSession}, d \in RowChoices("g1") \cup {NoSession}}

\* n sessions of provider p in the files that follow StoredOrder[first]:
\* the first `undated` of them without timestamps, the others with
\* lastMessage shift + 1, shift + 2, ...
ManyRows(p, first, n, shift, undated) ==
    [f \in {StoredOrder[first + k] : k \in 1..n} |->
        LET k == PathIndex(f) - first
        IN  StoredRow(f, p, NULL, NULL, IF k <= undated THEN 0 ELSE shift + k, k)]

ManySessions ==
    {ManyRows("claude", 0, nc, shift, uc)
       @@ ManyRows("codex", 12, nx, 0, ux)
       @@ ManyRows("gemini", 24, ng, 0, ng) :
          nc \in 0..MaxStored, nx \in 0..MaxStored, ng \in 0..1,
          shift \in {0, 5, 20}, uc \in 0..1, ux \in 0..1}

UsageInit ==
    /\ dirExists = [p \in Providers |-> TRUE]
    /\ disk = [f \in Paths |-> [mtime |-> 1, size |-> 1, content |-> 2]]
    /\ unreadable = {}
    /\ events = 0
    /\ files = EmptyTbl
    /\ sessions \in FewSessions \cup ManySessions
    /\ cache = EmptyTbl
    /\ lastSyncTime = 0
    /\ now = syncInterval
    /\ call = [c \in CallIds |-> NoCall]
    /\ pass = [c \in CallIds |-> [p \in Providers |-> NoPass]]
    /\ dbReady = TRUE
    /\ queue = << >>
    /\ recent = [p \in Providers |-> FALSE]
    /\ settings = EmptyTbl
    /\ backing = export(EmptyTbl, EmptyTbl, SavedSettings)
    /\ writable = TRUE
    /\ dbInstance = "ready"
    /\ parseIn = << >>
    /\ parseOut = NoSession

\* getAllUsage once the sync has brought the store to `sessions`: the
\* aggregation loop and the snapshot it returns
Aggregate ==
    /\ call[1].pc = "idle"
    /\ call' = [call EXCEPT ![1] = [NoCall EXCEPT !.kind = "getAllUsage", !.pc = "done",
                                                  !.served = "sync",
                                                  !.result = UsageData(sessions)]]
    /\ UNCHANGED <<dirExists, disk, unreadable, events, files, sessions, cache,
                   lastSyncTime, now, pass, dbReady, queue, recent, settings,
                   backing, writable, dbInstance, parseIn, parseOut>>

UsageSpec == UsageInit /\ [][Aggregate]_vars

(***************************************************************************)
(* The store on its own: the operations of DatabaseManager with arguments  *)
(* from small sets, the two settings handlers, a backing file that cannot  *)
(* always be written, an initialization that can fail, and a restart       *)
(***************************************************************************)
SettingKeys == {"refreshRate", "normalFontSize"}

SettingValues == {"15min", "medium"}

StorePaths == {"x1"}

StoreContents == {2, 3}

\* what the backing file holds when the program starts: nothing, or what
\* an earlier run has left
StoreInit ==
    /\ dirExists = [p \in Providers |-> TRUE]
    /\ disk = [f \in Paths |-> [mtime |-> 1, size |-> 1, content |-> 2]]
    /\ unreadable = {}
    /\ events = 0
    /\ files = EmptyTbl
    /\ sessions = EmptyTbl
    /\ cache = EmptyTbl
    /\ lastSyncTime = 0
    /\ now = syncInterval
    /\ call = [c \in CallIds |-> NoCall]
    /\ pass = [c \in CallIds |-> [p \in Providers |-> NoPass]]
    /\ dbReady = FALSE
    /\ queue = << >>
    /\ recent = [p \in Providers |-> FALSE]
    /\ settings = EmptyTbl
    /\ backing \in {export(EmptyTbl, EmptyTbl, EmptyTbl),
                    export(EmptyTbl, EmptyTbl, SavedSettings)}
    /\ writable = TRUE
    /\ dbInstance = "pending"
    /\ parseIn = << >>
    /\ parseOut = NoSession

\* a synchronous operation of the open store that leaves the tables as db,
\* and has called saveToFile if saved
StoreOp(db, saved) ==
    /\ dbInstance = "ready"
    /\ queue = << >>
    /\ files' = db.files
    /\ sessions' = db.sessions
    /\ settings' = db.settings
    /\ backing' = IF saved THEN saveToFile(db.files, db.sessions, db.settings)
                   ELSE backing

StoreRest == <<parseIn, parseOut, dirExists, disk, unreadable, events, cache, lastSyncTime, now, pass,
               dbReady, recent>>

UpsertSession(f, k) ==
    /\ StoreOp(export(files,
                       upsertSession(sessions,
                           ParseFile(PathProvider(f), f,
                               [g \in {f} |-> [mtime |-> 1, size |-> 1, content |-> k]])),
                       settings), TRUE)
    /\ UNCHANGED <<StoreRest, call, queue, writable, dbInstance>>

UpsertFileRecord(f, mtime, size) ==
    /\ StoreOp(export(upsertFileRecord(files, f, PathProvider(f), mtime, size),
                       sessions, settings), TRUE)
    /\ UNCHANGED <<StoreRest, call, queue, writable, dbInstance>>

CleanupDeletedFiles(p, existingFiles) ==
    /\ StoreOp(export(cleanupFiles(files, p, existingFiles),
                       cleanupSessions(sessions, files, p, existingFiles), settings),
               DeletedFiles(files, p, existingFiles) # {})
    /\ UNCHANGED <<StoreRest, call, queue, writable, dbInstance>>

ClearAll ==
    /\ StoreOp(clearAll(export(files, sessions, settings)), TRUE)
    /\ UNCHANGED <<StoreRest, call, queue, writable, dbInstance>>

\* ipcMain.handle('save-setting'): getDatabase() returns the instance there
\* is, whatever became of its init(); saveSetting returns at once when
\* this.db is null, and the handler answers { success: true }
SaveSetting(c, key, value) ==
    /\ queue = << >>
    /\ call[c].pc = "idle"
    /\ \A c2 \in CallIds : c2 < c => call[c2].pc # "idle"
    /\ call' = [call EXCEPT ![c] = [NoCall EXCEPT !.kind = "saveSetting", !.pc = "done",
                                                  !.served = "success"]]
    /\ queue' = <<<<c, "call">>>>
    /\ settings' = IF dbInstance = "ready" THEN saveSetting(settings, key, value)
                    ELSE settings
    /\ backing' = IF dbInstance = "ready" THEN saveToFile(files, sessions, settings')
                   ELSE backing
    /\ UNCHANGED <<StoreRest, files, sessions, writable, dbInstance>>

\* ipcMain.handle('get-setting'): getSetting returns the default when
\* this.db is null
GetSetting(c, key, defaultValue) ==
    /\ queue = << >>
    /\ call[c].pc = "idle"
    /\ \A c2 \in CallIds : c2 < c => call[c2].pc # "idle"
    /\ call' = [call EXCEPT ![c] =
                  [NoCall EXCEPT !.kind = "getSetting", !.pc = "done",
                                 !.served = "success",
                                 !.result = IF dbInstance = "ready"
                                              THEN <<getSetting(settings, key, defaultValue)>>
                                            ELSE <<defaultValue>>]]
    /\ queue' = <<<<c, "call">>>>
    /\ UNCHANGED <<StoreRest, files, sessions, settings, backing, writable, dbInstance>>

\* init() throws: the directory cannot be made or the file cannot be
\* opened; this.db stays null and dbInstance stays set
InitFails ==
    /\ dbInstance = "pending"
    /\ dbInstance' = "failed"
    /\ UNCHANGED <<StoreRest, files, sessions, settings, backing, writable, call, queue>>

\* the volume of the backing file fills up or is freed again
SetWritable(b) ==
    /\ writable # b
    /\ b \/ events < MaxEvents
    /\ writable' = b
    /\ events' = IF b THEN events ELSE events + 1
    /\ UNCHANGED <<parseIn, parseOut, dirExists, disk, unreadable, cache, lastSyncTime, now, pass, dbReady,
                   recent, files, sessions, settings, backing, call, queue, dbInstance>>

\* the process is killed and the program started again: a new
\* DatabaseManager begins its init()
Restart ==
    /\ queue = << >>
    /\ dbInstance # "pending"
    /\ dbInstance' = "pending"
    /\ dbReady' = FALSE
    /\ files' = EmptyTbl
    /\ sessions' = EmptyTbl
    /\ settings' = EmptyTbl
    /\ call' = [c \in CallIds |-> NoCall]
    /\ UNCHANGED <<parseIn, parseOut, dirExists, disk, unreadable, events, cache, lastSyncTime, now, pass,
                   recent, backing, writable, queue>>

StoreNext ==
    \/ DbReady
    \/ InitFails
    \/ \E f \in StorePaths : \E k \in StoreContents : UpsertSession(f, k)
    \/ \E f \in StorePaths : \E m \in 1..MaxMtime : UpsertFileRecord(f, m, 1)
    \/ \E f \in StorePaths : \E S \in SUBSET {f} : CleanupDeletedFiles(PathProvider(f), S)
    \/ ClearAll
    \/ \E c \in CallIds : \E key \in SettingKeys : \E value \in SettingValues :
          SaveSetting(c, key, value)
    \/ \E c \in CallIds : \E key \in SettingKeys : GetSetting(c, key, "")
    \/ \E c \in CallIds : Reply(c)
    \/ \E b \in BOOLEAN : SetWritable(b)
    \/ Restart

StoreSpec == StoreInit /\ [][StoreNext]_vars

(***************************************************************************)
(* Properties of the sync passes                                           *)
(***************************************************************************)
\* a step in which syncProvider(p) of invocation c returns
Returns(c, p) == InFlight(pass[c][p]) /\ pass'[c][p].pc = "done"

\* a step in which pass[c][p] runs its loop on
LoopRuns(c, p) ==
    /\ pass[c][p].pc \in {"loop", "parse"}
    /\ \/ pass'[c][p].pc = "done"
       \/ pass'[c][p].pc = "parse" /\ pass'[c][p].i > pass[c][p].i

\* a step in which pass[c][p] goes on after the parse of a file
Resumes(c, p) == pass[c][p].pc = "parse" /\ LoopRuns(c, p)

\* f has no tracking record in ftbl, or one whose mtime or size is not the
\* one f has on disk
ChangedOnDisk(ftbl, f) ==
    \/ f \notin DOMAIN ftbl
    \/ ftbl[f].mtime # disk[f].mtime
    \/ ftbl[f].size # disk[f].size

\* the rows of path f are the same in two states of a table
SameRow(tbl, tbl2, f) ==
    /\ (f \in DOMAIN tbl2) = (f \in DOMAIN tbl)
    /\ f \in DOMAIN tbl => tbl2[f] = tbl[f]

\* C1: when a syncProvider(p) that ran alone on unchanged directories
\* returns, a second syncProvider(p) run right after it on the same
\* directories returns {added: 0, updated: 0, deleted: 0} and leaves the
\* stored sessions (and the tracking records) exactly as the first left them.
C1_IdempotentResync ==
    [][\A c \in CallIds : \A p \in Providers :
          Returns(c, p) /\ ~pass'[c][p].dirty =>
             LET again == syncProvider(p, files', sessions') IN
               /\ again.pass.added = 0
               /\ again.pass.updated = 0
               /\ again.pass.deleted = 0
               /\ again.sessions = sessions'
               /\ again.files = files']_vars

\* a pass that ran alone has returned after it added, updated or deleted
\* something
C1_Witness ==
    \E c \in CallIds : \E p \in Providers :
       /\ pass[c][p].pc = "done"
       /\ ~pass[c][p].dirty
       /\ pass[c][p].added + pass[c][p].updated + pass[c][p].deleted > 0

\* C2: in the loop of syncProvider a file is parsed if and only if it has
\* no tracking record or its mtime or its size on disk differs from the
\* stored one; a file that is passed over keeps its stored session, whatever
\* its content is now; a tracked file of which the mtime alone changed
\* (same size, and a parse that gives the stored session again) is
\* re-parsed and counted as updated, not as added.
C2_ChangeDetection ==
    [][\A c \in CallIds : \A p \in Providers :
          LET ps == pass[c][p]
              ps2 == pass'[c][p]
              from == IF ps.pc = "loop" THEN 1 ELSE ps.i + 1
              upTo == IF ps2.pc = "parse" THEN ps2.i - 1 ELSE Len(ps.files)
          IN  LoopRuns(c, p) =>
                /\ \A k \in from..upTo :
                      StatOk(ps.files[k]) =>
                         /\ ~ChangedOnDisk(files', ps.files[k])
                         /\ SameRow(sessions, sessions', ps.files[k])
                /\ ps2.pc = "parse" =>
                      StatOk(ps.files[ps2.i]) /\ ChangedOnDisk(files', ps.files[ps2.i])
                /\ /\ ps.pc = "parse"
                   /\ ps.files[ps.i] \in DOMAIN files
                   /\ files[ps.files[ps.i]].mtime # ps.mtime
                   /\ files[ps.files[ps.i]].size = ps.size
                   /\ sessions[ps.files[ps.i]] = Row(ResumeSession(p, ps))
                   => /\ ps2.updated = ps.updated + 1
                      /\ ps2.added = ps.added
                      /\ SameRow(sessions, sessions', ps.files[ps.i])]_vars

\* a Claude pass that ran alone has returned without an update although
\* the content of the tracked file c1 is no longer the one that was parsed:
\* mtime and size are the stored ones
C2_Witness ==
    \E c \in CallIds :
       /\ pass[c]["claude"].pc = "done"
       /\ ~pass[c]["claude"].dirty
       /\ pass[c]["claude"].added = 0
       /\ pass[c]["claude"].updated = 0
       /\ StatOk("c1")
       /\ ~ChangedOnDisk(files, "c1")
       /\ sessions["c1"] # Row(ParseFile("claude", "c1", disk))

\* what C3 says of the return of syncProvider(p): deleted is the number of
\* tracked paths of p that the current listing lacks, and a path of p that
\* is not on disk has neither a tracking record nor a session
C3_Reconciled(c, p) ==
    /\ pass'[c][p].deleted =
          Cardinality({f \in DOMAIN files :
                          files[f].provider = p /\ f \notin Set(findSessionFiles(p))})
    /\ \A f \in PathsOf(p) :
          f \notin DOMAIN disk => f \notin DOMAIN files' /\ f \notin DOMAIN sessions'

\* C3 as the specification states it: whenever a syncProvider(p) that ran
\* alone on unchanged directories returns, the files of p that are gone
\* from the disk have no tracking record and no session, and deleted counts
\* the tracked paths that the listing lacks.
C3_Original ==
    [][\A c \in CallIds : \A p \in Providers :
          Returns(c, p) /\ ~pass'[c][p].dirty => C3_Reconciled(c, p)]_vars

\* C3, amended: the same, provided the root directory of p exists when the
\* pass runs.
C3_DeletionReconciliation ==
    [][\A c \in CallIds : \A p \in Providers :
          Returns(c, p) /\ ~pass'[c][p].dirty /\ dirExists[p] =>
             C3_Reconciled(c, p)]_vars

\* a pass that ran alone in an existing directory has returned deleted = 1
\* for a file that is gone from the disk
C3_Witness ==
    \E c \in CallIds : \E p \in Providers : \E f \in PathsOf(p) :
       /\ pass[c][p].pc = "done"
       /\ ~pass[c][p].dirty
       /\ dirExists[p]
       /\ pass[c][p].deleted = 1
       /\ f \notin DOMAIN disk
       /\ f \notin DOMAIN files

\* C4: a tracking record or a session is deleted only when its file is no
\* longer on disk.
C4_DeletedOnlyWhenGone ==
    [][\A f \in Paths :
          \/ f \in DOMAIN files /\ f \notin DOMAIN files'
          \/ f \in DOMAIN sessions /\ f \notin DOMAIN sessions'
          => f \notin DOMAIN disk]_vars

\* C5: when the parse of a file gives messages = 0, the loop leaves the
\* rows of that file and the counters added and updated as they are; the
\* numbers of tracking records and of sessions stay the same, but for the
\* rows the cleanup of the same run deletes.
C5_ZeroMessageDiscard ==
    [][\A c \in CallIds : \A p \in Providers :
          LET ps == pass[c][p]
              ps2 == pass'[c][p]
          IN  Resumes(c, p) /\ ResumeSession(p, ps).messages = 0 =>
                /\ SameRow(files, files', ps.files[ps.i])
                /\ SameRow(sessions, sessions', ps.files[ps.i])
                /\ ps2.added = ps.added
                /\ ps2.updated = ps.updated
                /\ ps2.pc # "done" => files' = files /\ sessions' = sessions
                /\ ps2.pc = "done" =>
                      /\ Cardinality(DOMAIN files') + ps2.deleted = Cardinality(DOMAIN files)
                      /\ Cardinality(DOMAIN sessions') + ps2.deleted
                            = Cardinality(DOMAIN sessions)]_vars

\* a pass that ran alone has returned, and a readable file of its provider
\* that parses to no message has no tracking record
C5_Witness ==
    \E c \in CallIds : \E p \in Providers : \E f \in PathsOf(p) :
       /\ pass[c][p].pc = "done"
       /\ ~pass[c][p].dirty
       /\ StatOk(f)
       /\ ParseFile(p, f, disk).messages = 0
       /\ f \notin DOMAIN files
       /\ f \notin DOMAIN sessions

\* what C6 says of the step that follows the parse of file f by pass[c][p]:
\* the stored session is the parsed record as upsertSession binds it, and
\* the tracking record has the mtime and the size the pass read
C6_Replaced(c, p) ==
    LET ps == pass[c][p]
        f == ps.files[ps.i]
    IN  /\ f \in DOMAIN sessions'
        /\ sessions'[f] = Row(ResumeSession(p, ps))
        /\ f \in DOMAIN files'
        /\ files'[f].mtime = ps.mtime
        /\ files'[f].size = ps.size

\* C6 as the specification states it: whenever a pass has re-parsed a
\* tracked file, the stored session of the path is the record of that parse
\* and the tracking record has the mtime and size the pass observed.
C6_Original ==
    [][\A c \in CallIds : \A p \in Providers :
          Resumes(c, p) /\ pass[c][p].files[pass[c][p].i] \in DOMAIN files =>
             C6_Replaced(c, p)]_vars

\* C6, amended: the same for a re-parse that finds at least one message; a
\* re-parse that finds none is discarded.
C6_ReplacedWholesale ==
    [][\A c \in CallIds : \A p \in Providers :
          /\ Resumes(c, p)
          /\ pass[c][p].files[pass[c][p].i] \in DOMAIN files
          /\ ResumeSession(p, pass[c][p]).messages > 0
          => C6_Replaced(c, p)]_vars

\* a pass that ran alone has returned updated = 1 for a file whose content
\* is no longer the one the directories started with, and the store holds
\* the parse of the new content
C6_Witness ==
    \E c \in CallIds : \E p \in Providers : \E f \in PathsOf(p) :
       /\ pass[c][p].pc = "done"
       /\ ~pass[c][p].dirty
       /\ pass[c][p].updated = 1
       /\ StatOk(f)
       /\ disk[f].content = 3
       /\ f \in DOMAIN sessions
       /\ sessions[f] = Row(ParseFile(p, f, disk))

\* C7: a call that arrives while a sync pass is in flight starts no pass
\* that overlaps it: no two invocations have a pass of the same provider in
\* flight together.
C7_NoOverlappingPass ==
    \A c \in CallIds : \A c2 \in CallIds \ {c} : \A p \in Providers :
       ~(InFlight(pass[c][p]) /\ InFlight(pass[c2][p]))

\* C8: no two passes are between their needsUpdate check and their upsert
\* of the same path together.
C8_NoRaceOnPath ==
    \A c \in CallIds : \A c2 \in CallIds \ {c} : \A p \in Providers :
       ~(/\ pass[c][p].pc = "parse"
         /\ pass[c2][p].pc = "parse"
         /\ pass[c][p].files[pass[c][p].i] = pass[c2][p].files[pass[c2][p].i])

\* C9: at every point where another caller can run, the paths that have a
\* tracking record are the paths that have a session.
C9_RecordsPaired == DOMAIN files = DOMAIN sessions

\* a pass waits for the parse of a Claude file after another pass of the
\* same call has stored a file, and both tables have rows
C9_Witness ==
    \E c \in CallIds : \E p \in Providers \ {"claude"} :
       /\ pass[c]["claude"].pc = "parse"
       /\ pass[c][p].pc = "done"
       /\ pass[c][p].added = 1
       /\ DOMAIN files # {}
       /\ DOMAIN sessions # {}

\* C10: getSessions(p), at its test after the await of ensureDb, returns
\* the cached snapshot of p without a sync if a syncProvider(p) has returned
\* less than syncInterval ago, and runs a fresh syncProvider(p) otherwise.
C10_Debounced ==
    [][\A c \in CallIds :
          /\ call[c].kind = "getSessions"
          /\ call[c].pc = "ensureDb"
          /\ call'[c].pc # "ensureDb"
          => IF recent[call[c].provider]
               THEN /\ call'[c].served = "cache"
                    /\ call[c].provider \in DOMAIN cache
                    /\ call'[c].result = cache[call[c].provider]
                    /\ pass'[c][call[c].provider].pc = "none"
             ELSE /\ call'[c].served = "sync"
                  /\ pass'[c][call[c].provider].pc = "start"]_vars

(***************************************************************************)
(* Properties of the read cache and of the forced refresh                  *)
(***************************************************************************)
\* C11: the cache is invalidated by every write: a getSessions(p) that is
\* served from the cache returns the sessions of p as the store holds them,
\* never a snapshot taken before a pass upserted or deleted a session of p.
C11_InvalidateOnWrite ==
    [][\A c \in CallIds :
          /\ call[c].kind = "getSessions"
          /\ call[c].pc = "ensureDb"
          /\ call'[c].served = "cache"
          => call'[c].result = dbGetSessions(sessions, call[c].provider)]_vars

\* C12: refreshData first clears every cached snapshot, then always runs a
\* full syncAll (a pass of every provider, however recent the last sync is),
\* and the snapshot it returns is read from the store after that syncAll has
\* completed.
C12_ForcedRefresh ==
    [][\A c \in CallIds :
          /\ (call[c].pc = "idle" /\ call'[c].kind = "refreshData")
                => cache' = EmptyTbl /\ call'[c].pc = "ensureDb"
          /\ (call[c].kind = "refreshData" /\ call[c].pc = "ensureDb"
                  /\ call'[c].pc # "ensureDb")
                => /\ call'[c].pc = "sync"
                   /\ \A p \in Providers : pass'[c][p].pc = "start"
          /\ (call[c].kind = "refreshData" /\ call[c].pc = "sync"
                  /\ call'[c].pc # "sync")
                => /\ call'[c].pc = "synced"
                   /\ \A p \in Providers : pass[c][p].pc = "done"
          /\ (call[c].kind = "refreshData" /\ call[c].pc # "done"
                  /\ call'[c].pc = "done")
                => /\ call[c].pc = "synced"
                   /\ call'[c].result = UsageData(sessions')
                   /\ call'[c].result.rows =
                        [p \in Providers |-> dbGetSessions(sessions', p)]]_vars

\* a refreshData that was invoked less than syncInterval after the last
\* syncAll completed has run the three passes of its own syncAll, and one of
\* them has changed the store
C12_Witness ==
    \E c \in CallIds :
        /\ call[c].kind = "refreshData"
        /\ call[c].pc = "sync"
        /\ lastSyncTime > 0
        /\ now - lastSyncTime < syncInterval
        /\ \A p \in Providers : pass[c][p].pc = "done"
        /\ \E p \in Providers : pass[c][p].updated + pass[c][p].deleted > 0

(***************************************************************************)
(* Properties of the store                                                 *)
(***************************************************************************)
\* C13: every mutating operation of the store has written its effect to the
\* backing file when it returns: whenever the store is open, between two
\* operations, the backing file holds the three tables as the store holds
\* them, so that a store reopened after a kill holds the effect of every
\* operation that had returned.
C13_Durable ==
    dbInstance = "ready" => backing = export(files, sessions, settings)

\* C14: once the initialization of the store has failed, every request that
\* obtains the store through getDatabase fails: a save-setting or a
\* get-setting request made after the failure is answered with an error,
\* never with success.
C14_InitFailureIsHard ==
    [][\A c \in CallIds :
          /\ dbInstance = "failed"
          /\ call[c].pc = "idle"
          /\ call'[c].kind \in {"saveSetting", "getSetting"}
          => call'[c].served = "error"]_vars

\* a step of the forceRebuild of invocation c
RebuildSteps(c) ==
    /\ call[c].kind = "forceRebuild"
    /\ call'[c] # call[c] \/ pass'[c] # pass[c]

\* the sessions a sync of every provider from an empty store produces for
\* the file system as it is
FreshSessions ==
    LET r == [p \in Providers |-> syncProvider(p, EmptyTbl, EmptyTbl).sessions] IN
    [f \in UNION {DOMAIN r[p] : p \in Providers} |-> r[PathProvider(f)][f]]

\* the step of forceRebuild that calls clearAll leaves no tracking record
\* and no session record, clears the cache and starts the three passes
C15_Cleared(c) ==
    (RebuildSteps(c) /\ call[c].pc = "ensureDb")
        => /\ files' = EmptyTbl
           /\ sessions' = EmptyTbl
           /\ cache' = EmptyTbl
           /\ \A p \in Providers : pass'[c][p].pc = "start"

C16_FailuresDoNotAbort ==
    [][\A c \in CallIds : \A p \in Providers :
          LET ps == pass[c][p]
              ps2 == pass'[c][p]
              from == IF ps.pc = "loop" THEN 1 ELSE ps.i + 1
              upTo == IF ps2.pc = "parse" THEN ps2.i - 1 ELSE Len(ps.files)
          IN  LoopRuns(c, p) =>
                /\ (ps.pc = "parse" /\ ~StatOk(ps.files[ps.i])) =>
                      /\ SameRow(files, files', ps.files[ps.i])
                      /\ SameRow(sessions, sessions', ps.files[ps.i])
                      /\ ps2.added = ps.added
                      /\ ps2.updated = ps.updated
                /\ \A k \in from..upTo :
                      StatOk(ps.files[k]) => ~ChangedOnDisk(files', ps.files[k])
                /\ ps2.pc = "parse" => ps2.files = ps.files /\ ps2.i \in from..Len(ps.files)
                /\ ps2.pc = "done" =>
                      /\ getTrackedFiles(files', p) \subseteq Set(ps.files)
                      /\ ps2.deleted = Cardinality(DeletedFiles(files, p, Set(ps.files)))]_vars

\* the first of two listed Claude files became unreadable while it was
\* read, nothing was stored for it, and the pass is at the second file
C16_Witness ==
    \E c \in CallIds :
       LET ps == pass[c]["claude"] IN
       /\ ps.pc = "parse"
       /\ Len(ps.files) = 2
       /\ ps.i = 2
       /\ ps.files[1] \in unreadable
       /\ disk[ps.files[1]].content = 2
       /\ ps.files[1] \notin DOMAIN files
       /\ ps.added = 0

\* C17: syncProvider(p) for a provider whose session directory does not
\* exist returns {added: 0, updated: 0, deleted: 0} and leaves the tracking
\* records, the session records and the settings of the store, and the
\* backing file, as they are.
C17_MissingDirectory ==
    [][\A c \in CallIds : \A p \in Providers :
          (pass[c][p].pc = "start" /\ pass'[c][p].pc # "start" /\ ~dirExists[p])
            => /\ pass'[c][p].pc = "done"
               /\ pass'[c][p].added = 0
               /\ pass'[c][p].updated = 0
               /\ pass'[c][p].deleted = 0
               /\ files' = files
               /\ sessions' = sessions
               /\ settings' = settings
               /\ backing' = backing]_vars

\* a pass has returned for a provider whose directory was gone when it
\* began, and the store still holds a session and a tracking record of that provider, and
\* a setting
C17_Witness ==
    \E c \in CallIds : \E p \in Providers :
       /\ pass[c][p].pc = "done"
       /\ ~pass[c][p].changed
       /\ ~dirExists[p]
       /\ pass[c][p].added + pass[c][p].updated + pass[c][p].deleted = 0
       /\ \E f \in DOMAIN sessions : sessions[f].provider = p /\ f \in DOMAIN files
       /\ settings # EmptyTbl

\* C19: a file is parsed only when it changed: when a syncProvider(p) that
\* ran alone on unchanged directories returns, a second syncProvider(p) run
\* right after it on the same directories parses no file, every listed file
\* having been there, with the same mtime and size, in the pass before.
C19_ParsedOnlyWhenChanged ==
    [][\A c \in CallIds : \A p \in Providers :
          Returns(c, p) /\ ~pass'[c][p].dirty
            => parsedFiles(p, files', sessions') = {}]_vars

(***************************************************************************)
(* Properties of the snapshot of getAllUsage                               *)
(***************************************************************************)
\* C18: in the snapshot getAllUsage returns, every provider whose session
\* directory is missing at that time has available = false and zero-valued
\* totals: sessions, messages, inputTokens, outputTokens and costUsd are 0.
C18_AbsentIsZero ==
    [][\A c \in CallIds : \A p \in Providers :
          (call[c].pc = "synced" /\ call'[c].pc = "done" /\ ~dirExists[p])
            => LET st == call'[c].result.providers[p] IN
               /\ ~st.available
               /\ st.sessions = 0
               /\ st.messages = 0
               /\ st.inputTokens = 0
               /\ st.outputTokens = 0
               /\ st.costUsd = 0]_vars

(***************************************************************************)
(* Properties of the parsers                                               *)
(***************************************************************************)
\* the token_count events of a file that carry running totals
TokenCounts(file) ==
    SelectSeq(file, LAMBDA e : /\ e.shape = "obj"
                               /\ e.type = "event_msg"
                               /\ e.ptype = "token_count"
                               /\ e.info = "usage")

\* C20: for a Codex .jsonl file, inputTokens and outputTokens of the parsed
\* session are the input and output totals of the last token_count event
\* of the file, not the sum over the events, and both are 0 when the file
\* has no such event.
C20_CodexCumulative ==
    parseOut # NoSession =>
        LET tc == TokenCounts(parseIn) IN
        IF tc = << >>
          THEN parseOut.inputTokens = 0 /\ parseOut.outputTokens = 0
        ELSE /\ parseOut.inputTokens = tc[Len(tc)].inp
             /\ parseOut.outputTokens = tc[Len(tc)].out

\* a file with two token_count events of different non-zero totals, and
\* lines of other kinds, has been parsed
C20_Witness ==
    /\ parseOut # NoSession
    /\ LET tc == TokenCounts(parseIn) IN
       /\ Len(tc) = 2
       /\ Len(parseIn) = 3
       /\ tc[1].inp = 100
       /\ tc[2].inp = 250
       /\ parseOut.inputTokens = 250
       /\ parseOut.outputTokens = 120

\* the lines of a Claude file that are processed to the end: JSON.parse
\* accepts them and nothing throws before the usage is read
ClaudeParsed(file) ==
    SelectSeq(file, LAMBDA e : e.shape = "obj"
                               /\ ~(e.type # "tool_use" /\ e.tool = "nullentry"))

RECURSIVE SumInp(_)
SumInp(file) == IF file = << >> THEN 0 ELSE Head(file).inp + SumInp(Tail(file))

RECURSIVE SumOut(_)
SumOut(file) == IF file = << >> THEN 0 ELSE Head(file).out + SumOut(Tail(file))

\* C21: for a Claude file, inputTokens of the parsed session is the sum of
\* usage.input_tokens and outputTokens the sum of usage.output_tokens over
\* the successfully parsed lines of the file, for any sequence of lines.
C21_ClaudeAdditive ==
    (parseOut # NoSession /\ parseOut.provider = "claude") =>
        /\ parseOut.inputTokens = SumInp(ClaudeParsed(parseIn))
        /\ parseOut.outputTokens = SumOut(ClaudeParsed(parseIn))

\* a Claude file of three different usage-bearing lines has been parsed
C21_Witness ==
    /\ parseOut # NoSession
    /\ parseOut.provider = "claude"
    /\ Len(ClaudeParsed(parseIn)) = 3
    /\ {parseIn[i].inp : i \in 1..3} = {10, 20, 7}
    /\ parseOut.inputTokens = 37
    /\ parseOut.outputTokens = 16

\* the timestamps encountered in a file, in file order: those of the lines
\* that are processed up to the place where a parser would read them
Timestamps(provider, file) ==
    LET read == IF provider = "claude" THEN ClaudeParsed(file)
                ELSE SelectSeq(file, LAMBDA e : e.shape = "obj")
    IN  SelectSeq(read, LAMBDA e : e.ts # 0)

\* C22: for all three providers the duration of the parsed session is
\* max(0, lastMessage - firstMessage), firstMessage and lastMessage being
\* the first and the last timestamp encountered in the file; it is 0 only
\* when the two are equal, reversed or absent.
C22_Duration ==
    parseOut # NoSession =>
        LET t == Timestamps(parseOut.provider, parseIn) IN
        IF t = << >> THEN parseOut.duration = 0
        ELSE parseOut.duration = Max(0, t[Len(t)].ts - t[1].ts)

\* a snapshot of getAllUsage has been returned by the aggregation
Aggregated == call[1].pc = "done" /\ call[1].kind = "getAllUsage"

StoredRows == {sessions[f] : f \in DOMAIN sessions}

\* C23: for every store content, recentSessions of getAllUsage has at most
\* 20 entries, is in descending order of lastMessage (strictly descending
\* where the timestamps differ), and every session without a lastMessage
\* comes after every session that has one.
C23_RecentCapAndOrder ==
    Aggregated =>
        LET rs == call[1].result.recentSessions IN
        /\ Len(rs) <= 20
        /\ \A i, j \in DOMAIN rs :
              i < j =>
                /\ rs[i].lastMessage >= rs[j].lastMessage
                /\ (rs[i].lastMessage = 0 => rs[j].lastMessage = 0)

\* 21 sessions are stored, at most 10 per provider, with and without
\* timestamps; the snapshot lists 20 of them, sessions of two providers
\* interleaved by time, the undated ones last
C23_Witness ==
    /\ Aggregated
    /\ Cardinality(DOMAIN sessions) = 21
    /\ LET rs == call[1].result.recentSessions IN
       /\ Len(rs) = 20
       /\ rs[1].lastMessage > rs[2].lastMessage
       /\ \E i, j \in DOMAIN rs :
             /\ i < j
             /\ rs[i].provider = "codex"
             /\ rs[j].provider = "claude"
             /\ rs[j].lastMessage # 0
       /\ rs[18].lastMessage # 0
       /\ rs[19].lastMessage = 0
       /\ rs[19].provider = "claude"
       /\ rs[20].provider = "codex"

\* C24: for every store content, recentSessions holds exactly the
\* min(20, total) sessions with the greatest lastMessage among the stored
\* sessions of all providers: no stored session that is not listed is more
\* recent than a listed one.
C24_MostRecentOverall ==
    Aggregated =>
        LET rs == call[1].result.recentSessions
            total == Cardinality(StoredRows)
        IN  /\ Len(rs) = IF total < 20 THEN total ELSE 20
            /\ \A r \in StoredRows :
                  (\A i \in DOMAIN rs : rs[i].path # r.path) =>
                      \A i \in DOMAIN rs : rs[i].lastMessage >= r.lastMessage

\* the label a stored session is filed under
LabelOf(r) ==
    IF r.project # NULL THEN r.project
    ELSE [claude |-> "claude-sessions", codex |-> "codex-sessions",
          gemini |-> "gemini-sessions"][r.provider]

RECURSIVE Reverse(_)
Reverse(seq) == IF seq = << >> THEN << >> ELSE Append(Reverse(Tail(seq)), Head(seq))

\* C25: in getAllUsage, for every project label, byProject[label].sessions
\* is the number of stored sessions with that label and lastActivity the
\* greatest lastMessage among them (null, here 0, when none has one),
\* whatever the order in which the sessions are folded; a session without
\* a project is filed under '{provider}-sessions'.
C25_ProjectAggregation ==
    Aggregated =>
        LET bp == call[1].result.byProject
            other == byProject(EmptyTbl, Reverse(loopRows(sessions)))
        IN  /\ DOMAIN bp = {LabelOf(r) : r \in StoredRows}
            /\ DOMAIN other = DOMAIN bp
            /\ \A l \in DOMAIN bp :
                  LET with == {r \in StoredRows : LabelOf(r) = l}
                      dated == {r.lastMessage : r \in with} \ {0}
                  IN  /\ bp[l].sessions = Cardinality(with)
                      /\ bp[l].lastActivity =
                            IF dated = {} THEN 0
                            ELSE CHOOSE t \in dated : \A u \in dated : t >= u
                      /\ other[l].sessions = bp[l].sessions
                      /\ other[l].lastActivity = bp[l].lastActivity

\* a label shared by a Claude and a Codex session, the one folded second
\* being the older, next to a Codex session without project and a Gemini
\* session, which has neither project nor timestamp
C25_Witness ==
    /\ Aggregated
    /\ DOMAIN sessions = {"c1", "c2", "x1", "g1"}
    /\ sessions["c1"].project = "trees/project"
    /\ sessions["c1"].lastMessage = 12
    /\ sessions["c2"].project = "trees/project"
    /\ sessions["c2"].lastMessage = 0
    /\ sessions["x1"].project = "trees/project"
    /\ sessions["x1"].lastMessage = 5
    /\ call[1].result.byProject["trees/project"].sessions = 3
    /\ call[1].result.byProject["trees/project"].lastActivity = 12
    /\ call[1].result.byProject["gemini-sessions"].sessions = 1
    /\ call[1].result.byProject["gemini-sessions"].lastActivity = 0

\* the session counts of the buckets of byModel, byDate or byProject, summed
RECURSIVE BucketSessions(_)
BucketSessions(tbl) ==
    IF DOMAIN tbl = {} THEN 0
    ELSE LET k == CHOOSE x \in DOMAIN tbl : TRUE
         IN  tbl[k].sessions + BucketSessions([x \in DOMAIN tbl \ {k} |-> tbl[x]])

\* C26: in every snapshot of getAllUsage the grand totals of sessions,
\* messages, inputTokens and outputTokens are the sums of the three
\* providers' totals, totalTokens = inputTokens + outputTokens, and the
\* session counts of the byModel buckets and of the byProject buckets both
\* add up to totals.sessions.
C26_AggregateConsistency ==
    Aggregated =>
        LET u == call[1].result
            pr == u.providers
        IN  /\ \A fld \in {"sessions", "messages", "inputTokens", "outputTokens"} :
                  u.totals[fld] = pr["claude"][fld] + pr["codex"][fld] + pr["gemini"][fld]
            /\ u.totals.totalTokens = u.totals.inputTokens + u.totals.outputTokens
            /\ BucketSessions(u.byModel) = u.totals.sessions
            /\ BucketSessions(u.byProject) = u.totals.sessions

\* a snapshot over sessions of all three providers, which fall into
\* several model buckets and several project buckets
C26_Witness ==
    /\ Aggregated
    /\ LET u == call[1].result IN
       /\ u.totals.sessions = 4
       /\ u.providers["claude"].sessions = 2
       /\ u.providers["codex"].sessions = 1
       /\ u.providers["gemini"].sessions = 1
       /\ u.totals.outputTokens > 0
       /\ Cardinality(DOMAIN u.byModel) = 3
       /\ "unknown" \in DOMAIN u.byModel
       /\ Cardinality(DOMAIN u.byProject) = 3

\* the stored sessions that have a lastMessage
DatedRows == {r \in StoredRows : r.lastMessage # 0}

\* C27: a stored session with a lastMessage is counted in exactly one
\* byDate bucket, that of the UTC date of its lastMessage, one without a
\* lastMessage in none; both are counted in their provider's totals and in
\* their byModel bucket; the session counts of byDate add up to the number
\* of stored sessions that have a lastMessage.
C27_DateBuckets ==
    Aggregated =>
        LET u == call[1].result IN
        /\ DOMAIN u.byDate = {toISODate(r.lastMessage) : r \in DatedRows}
        /\ \A d \in DOMAIN u.byDate :
              u.byDate[d].sessions =
                  Cardinality({r \in DatedRows : toISODate(r.lastMessage) = d})
        /\ BucketSessions(u.byDate) = Cardinality(DatedRows)
        /\ \A p \in Providers :
              u.providers[p].sessions = Cardinality({r \in StoredRows : r.provider = p})
        /\ \A m \in DOMAIN u.byModel :
              u.byModel[m].sessions =
                  Cardinality({r \in StoredRows :
                                  (IF r.model = NULL THEN "unknown" ELSE r.model) = m})

\* sessions of two different days and sessions without a lastMessage have
\* been aggregated: two date buckets, fewer dated sessions than sessions
C27_Witness ==
    /\ Aggregated
    /\ Cardinality(StoredRows) = 4
    /\ Cardinality(DatedRows) = 3
    /\ LET u == call[1].result IN
       /\ DOMAIN u.byDate = {0, 1}
       /\ u.byDate[0].sessions = 2
       /\ u.byDate[1].sessions = 1
       /\ u.totals.sessions = 4
       /\ u.providers["gemini"].sessions = 1
       /\ BucketSessions(u.byModel) = 4

\* what a get-setting request for key with the default d is answered now
Returned(key, d) ==
    IF dbInstance = "ready" THEN getSetting(settings, key, d) ELSE d

\* C28: once saveSetting(k, v) has returned, getSetting(k, d) returns v for
\* every default d until the next saveSetting on k, and d for a key never
\* saved; no operation of the store other than saveSetting changes the value
\* returned for a key. This holds for every interleaving of save-setting
\* and get-setting requests with the start-up of the store.
C28_Settings ==
    [][/\ \A c \in CallIds : \A k \in SettingKeys : \A v \in SettingValues :
             SaveSetting(c, k, v) =>
                 \A d \in {"", "large"} : Returned(k, d)' = v
       /\ \A c \in CallIds : \A k \in SettingKeys :
             (GetSetting(c, k, "") /\ dbInstance = "ready" /\ k \notin DOMAIN settings)
                 => call'[c].result = <<"">>
       /\ (/\ dbInstance = "ready"
           /\ dbInstance' = "ready"
           /\ ~ \E c \in CallIds : \E k \in SettingKeys : \E v \in SettingValues :
                   SaveSetting(c, k, v))
            => \A k \in SettingKeys : \A d \in {"", "large"} :
                   Returned(k, d)' = Returned(k, d)]_vars

\* C29: listSessions(provider) of the store returns exactly the stored
\* sessions of that provider, each once, in descending order of lastMessage,
\* every session without a lastMessage after every session that has one.
C29_ListSessions ==
    Aggregated =>
        \A p \in Providers :
            LET rows == call[1].result.rows[p] IN
            /\ {rows[i] : i \in DOMAIN rows} = {r \in StoredRows : r.provider = p}
            /\ Len(rows) = Cardinality({r \in StoredRows : r.provider = p})
            /\ \A i, j \in DOMAIN rows :
                  i < j =>
                    /\ rows[i].lastMessage >= rows[j].lastMessage
                    /\ (rows[i].lastMessage = 0 => rows[j].lastMessage = 0)

\* three Claude sessions next to sessions of Codex: the one stored under
\* the first path has no lastMessage and is listed last, the newest first
C29_Witness ==
    /\ Aggregated
    /\ \E f \in DOMAIN sessions : sessions[f].provider = "codex"
    /\ LET rows == call[1].result.rows["claude"] IN
       /\ Len(rows) = 3
       /\ rows[1].path = "c3"
       /\ rows[1].lastMessage > rows[2].lastMessage
       /\ rows[2].path = "c2"
       /\ rows[3].path = "c1"
       /\ rows[3].lastMessage = 0

\* C30: a file that syncProvider upserts is counted as added if and only if
\* its path had no tracking record immediately before the upsert, and as
\* updated otherwise, so that added + updated is the number of files the
\* pass has upserted; and a pass that runs alone leaves as many tracking
\* records of its provider as there were before it, plus added, minus
\* deleted.
C30_Classification ==
    [][\A c \in CallIds : \A p \in Providers :
          LET ps == pass[c][p] IN
          /\ Resumes(c, p) =>
                LET f == ps.files[ps.i]
                    upserted == ShouldStore(ResumeSession(p, ps))
                    isNew == f \notin DOMAIN files
                IN  /\ pass'[c][p].added =
                          ps.added + (IF upserted /\ isNew THEN 1 ELSE 0)
                    /\ pass'[c][p].updated =
                          ps.updated + (IF upserted /\ ~isNew THEN 1 ELSE 0)
                    /\ upserted => f \in DOMAIN files' /\ f \in DOMAIN sessions'
          /\ (ps.pc \in {"none", "start", "loop"} /\ pass'[c][p].pc # "none") =>
                pass'[c][p].added = 0 /\ pass'[c][p].updated = 0
          /\ (ps.pc = "start" /\ pass'[c][p].pc # "start") =>
                LET alone == syncProvider(p, files, sessions) IN
                Cardinality(getTrackedFiles(alone.files, p)) =
                    Cardinality(getTrackedFiles(files, p))
                        + alone.pass.added - alone.pass.deleted]_vars

\* a pass over two files, both tracked, has returned after it ran alone:
\* it has upserted one of them, counted as updated
C30_Witness ==
    \E c \in CallIds :
       /\ pass[c]["claude"].pc = "done"
       /\ ~pass[c]["claude"].dirty
       /\ pass[c]["claude"].updated = 1
       /\ pass[c]["claude"].added = 0
       /\ Cardinality(getTrackedFiles(files, "claude")) = 2

\* a step of the pass of provider p of invocation c
PassSteps(c, p) ==
    /\ InFlight(pass[c][p])
    /\ pass'[c][p].pc # pass[c][p].pc \/ pass'[c][p].i # pass[c][p].i

\* the row of path f in tbl or in tbl2 is a row of another provider than p
ForeignRow(tbl, tbl2, f, p) ==
    \/ f \in DOMAIN tbl /\ tbl[f].provider # p
    \/ f \in DOMAIN tbl2 /\ tbl2[f].provider # p

\* C31: no step of a syncProvider(p) pass, its cleanup included, inserts,
\* changes or deletes a tracking record or a session record of another
\* provider than p, also when the three passes of syncAll run interleaved.
C31_ProviderIndependence ==
    [][\A c \in CallIds : \A p \in Providers :
          PassSteps(c, p) =>
             \A f \in AllPaths :
                /\ ForeignRow(files, files', f, p) => SameRow(files, files', f)
                /\ ForeignRow(sessions, sessions', f, p)
                      => SameRow(sessions, sessions', f)]_vars

\* the Codex pass of a syncAll has returned after its cleanup deleted a
\* record, the Gemini pass of the same syncAll still running, with the
\* records of Claude and Gemini in the store
C31_Witness ==
    \E c \in CallIds :
       /\ pass[c]["codex"].pc = "done"
       /\ pass[c]["codex"].deleted = 1
       /\ InFlight(pass[c]["gemini"])
       /\ "c1" \in DOMAIN files
       /\ "g1" \in DOMAIN sessions
       /\ "x1" \notin DOMAIN files

\* the processing of line e fails in the parser of the provider: the line is
\* not JSON, or it is JSON null, or (Claude) its content list holds a null
\* entry that the tool-use test reaches
LineFails(provider, e) ==
    \/ e.shape \in {"invalid", "null"}
    \/ provider = "claude" /\ e.type # "tool_use" /\ e.tool = "nullentry"

\* the record the parser of the provider makes of a file
ParsedAs(provider, file) ==
    CASE provider = "claude" -> parseClaudeSession("c1", file)
      [] provider = "codex" -> parseCodexSession("x1", file)
      [] OTHER -> parseGeminiSession("g1", file)

\* C32: in each of the three parsers a line whose processing fails
\* contributes nothing: the record is the one the parser makes of the file
\* without the failing lines (same messages, role counters, toolUses, token
\* counters, cost, timestamps and model), and the lines that follow a
\* failing line are processed.
C32_LineFailureAllOrNothing ==
    parseOut # NoSession =>
        parseOut = ParsedAs(parseOut.provider,
                            SelectSeq(parseIn,
                                      LAMBDA e : ~LineFails(parseOut.provider, e)))

\* C33: every sync runs to completion: a syncProvider pass that has started
\* returns; a call that has started its passes goes on after them, and a
\* syncAll sets lastSyncTime only when its three passes have returned; no
\* other caller cancels or blocks a pass.
C33_SyncCompletes ==
    /\ \A c \in CallIds : \A p \in Providers :
          InFlight(pass[c][p]) ~> pass[c][p].pc = "done"
    /\ \A c \in CallIds : call[c].pc = "sync" ~> call[c].pc \in {"synced", "done"}
    /\ [][\A c \in CallIds :
             /\ (call[c].pc = "sync" /\ call'[c].pc # "sync")
                   => \A p \in Providers : pass[c][p].pc \in {"none", "done"}
             /\ \A p \in Providers :
                   InFlight(pass[c][p]) => pass'[c][p].pc # "none"]_vars

\* a syncAll has returned and set lastSyncTime while the passes of another
\* caller, started during it, are still running
C33_Witness ==
    \E c, c2 \in CallIds :
       /\ c # c2
       /\ call[c].pc = "synced"
       /\ lastSyncTime = now
       /\ call[c2].pc = "sync"
       /\ \E p \in Providers : InFlight(pass[c2][p]) /\ pass[c2][p].dirty

(***************************************************************************)
(* C34: getModelPricing returns the entry of an exact match, otherwise     *)
(* the entry of a table key the name starts with or contains, otherwise    *)
(* the family entry, otherwise the default; a name that contains           *)
(* gpt-4o-mini resolves to the gpt-4o-mini prices and a name that extends  *)
(* o1-mini to the o1-mini prices.  The keys a name contains are nested     *)
(* in the names drawn here, so the entry meant is that of the longest.     *)
(***************************************************************************)
KeysIn(m) == {i \in DOMAIN PricingKeys : includes(m, PricingKeys[i])}

ClaimedPricing(m) ==
    IF m = "" THEN PRICING("default")
    ELSE IF \E i \in DOMAIN PricingKeys : PricingKeys[i] = m THEN PRICING(m)
    ELSE IF KeysIn(m) # {}
      THEN PRICING(PricingKeys[CHOOSE i \in KeysIn(m) :
               \A j \in KeysIn(m) :
                   Len(NameParts(PricingKeys[j])) <= Len(NameParts(PricingKeys[i]))])
    ELSE IF includes(m, "opus") THEN PRICING("claude-3-opus-20240229")
    ELSE IF includes(m, "sonnet") THEN PRICING("claude-3-5-sonnet-20241022")
    ELSE IF includes(m, "haiku") THEN PRICING("claude-3-haiku-20240307")
    ELSE IF includes(m, "gemini") THEN PRICING("gemini-2.0-flash")
    ELSE PRICING("default")

C34_PricingResolution ==
    parseOut # NoSession =>
        LET m == parseIn[1].model
            t == parseIn[2]
        IN  parseOut.costUsd = t.inp * ClaimedPricing(m).input
                               + t.out * ClaimedPricing(m).output

C34_MiniVariant ==
    /\ parseOut # NoSession
    /\ parseIn[1].model = "gpt-4o-mini-2024-07-18"
    /\ parseIn[2].inp = 1 /\ parseIn[2].out = 0
    /\ parseOut.costUsd = PRICING("gpt-4o").input

(***************************************************************************)
(* C35: getDatabase never hands out a store that is not ready: whenever    *)
(* the save-setting or the get-setting handler gets its store from         *)
(* getDatabase and goes on, the initialization of that store has           *)
(* completed, so that the saved value is in the settings table afterwards  *)
(* and the value read is the one of the table.                             *)
(***************************************************************************)
C35_GetDatabaseReady ==
    [][/\ \A c \in CallIds : \A k \in SettingKeys : \A v \in SettingValues :
             SaveSetting(c, k, v) =>
                 /\ dbInstance = "ready"
                 /\ k \in DOMAIN settings'
                 /\ settings'[k] = v
       /\ \A c \in CallIds : \A k \in SettingKeys :
             GetSetting(c, k, "") =>
                 /\ dbInstance = "ready"
                 /\ call'[c].result = <<getSetting(settings, k, "")>>]_vars

(***************************************************************************)
(* C36: in every snapshot returned by getAllUsage, all sessions folded     *)
(* into byProject[label] belong to the provider recorded in                *)
(* byProject[label].provider.                                              *)
(***************************************************************************)
C36_ProjectProvider ==
    Aggregated =>
        \A r \in StoredRows :
            /\ LabelOf(r) \in DOMAIN call[1].result.byProject
            /\ call[1].result.byProject[LabelOf(r)].provider = r.provider

(***************************************************************************)
(* C37: for every record produced by any of the three parsers,             *)
(* userMessages + assistantMessages <= messages: each parsed line or       *)
(* array element increments messages once and at most one of the two role  *)
(* counters once.                                                          *)
(***************************************************************************)
C37_RoleCounters ==
    parseOut # NoSession =>
        /\ parseOut.userMessages + parseOut.assistantMessages <= parseOut.messages
        /\ parseOut.messages <= Len(parseIn)

C37_Witness ==
    /\ parseOut # NoSession
    /\ parseOut.provider = "gemini"
    /\ parseOut.userMessages = 1
    /\ parseOut.assistantMessages = 2
    /\ parseOut.messages = 3

C37_WitnessCodex ==
    /\ parseOut # NoSession
    /\ parseOut.provider = "codex"
    /\ parseOut.userMessages = 1
    /\ parseOut.assistantMessages = 1
    /\ parseOut.messages = 3

====
